---- MODULE Spec2Model ----
(***************************************************************************)
(* A model of the TLS/certificate security-assessment engine of            *)
(* daixijun/devtools:                                                      *)
(*   src-tauri/src/tools/ssl_checker.rs        (cipher classifier, rule    *)
(*       engine, scorer/grader, live-scan chain builder, raw-socket probe) *)
(*   src-tauri/src/tools/certificate_viewer.rs (chain reconstructor)       *)
(*                                                                         *)
(* Strings are TLA+ strings; substring tests and case conversions are      *)
(* computed character by character, as str::contains, to_lowercase and     *)
(* to_uppercase do.  Option<T> is modelled as a sequence: <<>> is None and *)
(* <<x>> is Some(x).  Times are whole hours; chrono's num_days truncates   *)
(* toward zero and is modelled as such.                                    *)
(***************************************************************************)
EXTENDS Integers, Sequences, FiniteSets, TLC

VARIABLES
    pc,                 \* position of check_ssl_info after the TLS connection
    now,                \* chrono::Utc::now(), in hours
    cert,               \* Option<SslCertificate>: the parsed leaf certificate
    cipher_suites,      \* Vec<CipherSuite> returned by check_tls_connection
    analysis,           \* Option of analyze_security's (score, vulns, recs)
    certificate_chain,  \* Option<CertificateChain> (live-scan chain)
    ssl_versions,       \* supported_versions: Vec<String>
    cve_vulnerabilities,\* Vec<SecurityVulnerability>
    ssl_labs_rating,    \* Option<SslLabsRating>
    cert_chain_ders,    \* Vec<Vec<u8>>: the certificates the server sent
    vpc,                \* position of the certificate viewer
    pem_certs,          \* the X.509 certificates of the loaded PEM/PFX file
    chain_info,         \* Option<CertificateChainInfo>
    spc,                \* position of check_ssl_info in a whole scan
    input,              \* the domain argument as the caller passed it
    domain,             \* the domain after trim and to_lowercase
    server,             \* how the scanned host behaves during the scan
    net_log,            \* the network operations started so far, in order
    results,            \* check_protocol_support's results vector and loop position
    protocol_support,   \* Option<Vec<ProtocolSupport>>
    server_ip,          \* Option<String>
    server_info,        \* Option<String>
    server_cipher_order,\* Option<bool>
    http2_support,      \* Option<bool>
    spdy_support,       \* Option<bool>
    http3_support,      \* Option<bool>
    alpn_protocols,     \* Option<Vec<String>>
    result,             \* Option<Result<SslInfo, String>>: what check_ssl_info returned
    rpc,                \* position of check_tls_version_with_raw_socket
    probe_domain,       \* its domain argument
    probe_protocol,     \* its protocol_name argument
    client_hello,       \* the ClientHello it wrote
    response,           \* what the read of the server's reply returned
    raw_result          \* Option<bool>: the Ok(..) it returned

vars == <<pc, now, cert, cipher_suites, analysis, certificate_chain, ssl_versions,
          cve_vulnerabilities, ssl_labs_rating, cert_chain_ders, vpc, pem_certs, chain_info,
          spc, input, domain, server, net_log, results, protocol_support, server_ip,
          server_info, server_cipher_order, http2_support, spdy_support, http3_support,
          alpn_protocols, result, rpc, probe_domain, probe_protocol, client_hello,
          response, raw_result>>

scanVars == <<pc, now, cert, cipher_suites, analysis, certificate_chain, ssl_versions,
              cve_vulnerabilities, ssl_labs_rating, cert_chain_ders>>

viewerVars == <<vpc, pem_certs, chain_info>>

probeVars == <<spc, input, domain, server, net_log, results, protocol_support, server_ip,
               server_info, server_cipher_order, http2_support, spdy_support,
               http3_support, alpn_protocols, result>>

rawVars == <<rpc, probe_domain, probe_protocol, client_hello, response, raw_result>>

-----------------------------------------------------------------------------
(* Bounds of the model.                                                    *)

\* longest cipher-suite list handed to the rule engine and the scorer
MaxCiphers == 2

\* largest number of certificates in one loaded file
MaxCerts == 3

-----------------------------------------------------------------------------
(* Option<T> and small arithmetic helpers.                                 *)

None == <<>>

Some(x) == <<x>>

IsSome(o) == Len(o) = 1

Unwrap(o) == o[1]

Min(a, b) == IF a < b THEN a ELSE b

\* u32::saturating_sub
saturating_sub(a, b) == IF a > b THEN a - b ELSE 0

\* chrono::Duration::num_days on a duration of h hours: truncates toward zero
num_days(h) == IF h >= 0 THEN h \div 24 ELSE -((-h) \div 24)

-----------------------------------------------------------------------------
(* str::to_lowercase, str::to_uppercase and str::contains.                 *)

UpperLetters == <<"A","B","C","D","E","F","G","H","I","J","K","L","M",
                  "N","O","P","Q","R","S","T","U","V","W","X","Y","Z">>

LowerLetters == <<"a","b","c","d","e","f","g","h","i","j","k","l","m",
                  "n","o","p","q","r","s","t","u","v","w","x","y","z">>

MapChar(c, from, to) ==
    IF \E i \in 1..Len(from) : from[i] = c
    THEN to[CHOOSE i \in 1..Len(from) : from[i] = c]
    ELSE c

RECURSIVE MapString(_, _, _)
MapString(s, from, to) ==
    IF s = "" THEN ""
    ELSE MapChar(Head(s), from, to) \o MapString(Tail(s), from, to)

to_lowercase(s) == MapString(s, UpperLetters, LowerLetters)

to_uppercase(s) == MapString(s, LowerLetters, UpperLetters)

\* s.contains(pat)
contains(s, pat) ==
    \E i \in 0..(Len(s) - Len(pat)) : SubSeq(s, i + 1, i + Len(pat)) = pat

Has(seq, x) == \E i \in DOMAIN seq : seq[i] = x

RECURSIVE SeqsUpTo(_, _)
\* all sequences over S of length at most n
SeqsUpTo(S, n) ==
    IF n = 0 THEN {<<>>}
    ELSE LET shorter == SeqsUpTo(S, n - 1)
         IN  shorter \cup {Append(q, x) : q \in {r \in shorter : Len(r) = n - 1}, x \in S}

-----------------------------------------------------------------------------
(* Cipher-suite names.  The rule engine and the scorer take any list of    *)
(* CipherSuite records; the names below cover every marker they look for.  *)

\* names a connection may negotiate or a caller may list
ObservedNames ==
    << "TLS_RSA_WITH_RC4_128_SHA",
       "TLS_AES_256_GCM_SHA384",
       "TLS_ECDHE_RSA_WITH_AES_256_GCM_SHA384",
       "TLS_RSA_WITH_AES_128_GCM_SHA256",
       "TLS_ECDHE_RSA_WITH_AES_128_CBC_SHA",
       "TLS_ECDHE_RSA_WITH_NULL_SHA",
       "TLS_ECDHE_RSA_WITH_3DES_EDE_CBC_SHA",
       "TLS_RSA_EXPORT_WITH_RC4_40_MD5" >>

NegotiatedNames == {ObservedNames[i] : i \in DOMAIN ObservedNames}

\* the list check_tls_connection appends to the negotiated suite
common_ciphers ==
    << <<"TLS_AES_256_GCM_SHA384", "TLS 1.3">>,
       <<"TLS_CHACHA20_POLY1305_SHA256", "TLS 1.3">>,
       <<"TLS_AES_128_GCM_SHA256", "TLS 1.3">>,
       <<"ECDHE-RSA-AES256-GCM-SHA384", "TLS 1.2">>,
       <<"ECDHE-RSA-AES128-GCM-SHA256", "TLS 1.2">>,
       <<"ECDHE-RSA-CHACHA20-POLY1305", "TLS 1.2">> >>

CipherNames == NegotiatedNames \cup {common_ciphers[i][1] : i \in DOMAIN common_ciphers}

\* every pattern some contains() call of the engine looks for in a cipher name
Patterns ==
    { "null", "anon", "export", "des", "3des", "rc4", "md5", "aes128", "camellia128",
      "aes256", "chacha20", "gcm", "poly1305", "deflate", "compress",
      "CBC", "DHE", "ECDHE", "TLS_RSA_", "RSA", "EXPORT", "RSA_EXPORT", "3DES", "DES",
      "RC4" }

\* the three views of a name the engine searches, computed once per name
RawHas == [n \in CipherNames |-> {p \in Patterns : contains(n, p)}]

LowerHas == [n \in CipherNames |-> {p \in Patterns : contains(to_lowercase(n), p)}]

UpperHas == [n \in CipherNames |-> {p \in Patterns : contains(to_uppercase(n), p)}]

\* name.contains(p)
name_contains(n, p) == p \in RawHas[n]

\* name.to_lowercase().contains(p)
lower_contains(n, p) == p \in LowerHas[n]

\* name.to_uppercase().contains(p)
upper_contains(n, p) == p \in UpperHas[n]

\* a classifier that forgets the RC4 marker
classify_without_rc4(cipher_name) ==
    IF \/ lower_contains(cipher_name, "null")
       \/ lower_contains(cipher_name, "anon")
       \/ lower_contains(cipher_name, "export")
       \/ (lower_contains(cipher_name, "des") /\ ~lower_contains(cipher_name, "3des"))
       \/ lower_contains(cipher_name, "md5")
    THEN "WEAK"
    ELSE IF \/ lower_contains(cipher_name, "3des")
            \/ lower_contains(cipher_name, "aes128")
            \/ lower_contains(cipher_name, "camellia128")
    THEN "MEDIUM"
    ELSE IF \/ lower_contains(cipher_name, "aes256")
            \/ lower_contains(cipher_name, "chacha20")
            \/ lower_contains(cipher_name, "gcm")
            \/ lower_contains(cipher_name, "poly1305")
    THEN "HIGH"
    ELSE "MEDIUM"

classify_cipher_suite_strength(cipher_name) ==
    IF \/ lower_contains(cipher_name, "null")
       \/ lower_contains(cipher_name, "anon")
       \/ lower_contains(cipher_name, "export")
       \/ (lower_contains(cipher_name, "des") /\ ~lower_contains(cipher_name, "3des"))
       \/ lower_contains(cipher_name, "rc4")
       \/ lower_contains(cipher_name, "md5")
    THEN "WEAK"
    ELSE IF \/ lower_contains(cipher_name, "3des")
            \/ lower_contains(cipher_name, "aes128")
            \/ lower_contains(cipher_name, "camellia128")
    THEN "MEDIUM"
    ELSE IF \/ lower_contains(cipher_name, "aes256")
            \/ lower_contains(cipher_name, "chacha20")
            \/ lower_contains(cipher_name, "gcm")
            \/ lower_contains(cipher_name, "poly1305")
    THEN "HIGH"
    ELSE "MEDIUM"

\* the CipherSuite record pushed for a name observed under a version
CipherSuite(name, version) ==
    [name |-> name, version |-> version,
     strength |-> classify_cipher_suite_strength(name), server_order |-> FALSE]

\* the list check_tls_connection returns when the connection negotiated a suite
connection_cipher_suites(negotiated) ==
    <<CipherSuite(negotiated, "TLS 1.3")>>
        \o [i \in DOMAIN common_ciphers |->
                CipherSuite(common_ciphers[i][1], common_ciphers[i][2])]

\* the cipher-suite lists handed to the rule engine and the scorer: every list of
\* at most MaxCiphers observed suites, and the lists check_tls_connection builds.
\* The engine only searches and counts a list, so one order of each list is kept:
\* the order of ObservedNames.
CipherLists ==
    {[i \in DOMAIN ix |-> CipherSuite(ObservedNames[ix[i]], "TLS 1.3")] :
         ix \in {q \in SeqsUpTo(DOMAIN ObservedNames, MaxCiphers) :
                    \A i \in 1..(Len(q) - 1) : q[i] <= q[i + 1]}}
    \cup {connection_cipher_suites(n) : n \in NegotiatedNames}

-----------------------------------------------------------------------------
(* The leaf certificate as the server sends it (DER), and parse_certificate.*)

\* signature-algorithm OIDs a leaf may carry: sha256WithRSAEncryption, sha1WithRSAEncryption
SignatureOids == {"1.2.840.113549.1.1.11", "1.2.840.113549.1.1.5"}

get_signature_algorithm_name(oid) ==
    CASE oid = "1.2.840.113549.1.1.5"  -> "SHA1withRSA"
      [] oid = "1.2.840.113549.1.1.11" -> "SHA256withRSA"
      [] oid = "1.2.840.113549.1.1.12" -> "SHA384withRSA"
      [] oid = "1.2.840.113549.1.1.13" -> "SHA512withRSA"
      [] oid = "1.2.840.10045.4.1"     -> "ECDSA-with-SHA1"
      [] oid = "1.2.840.10045.4.3.2"   -> "ECDSA-with-SHA256"
      [] oid = "1.2.840.10045.4.3.3"   -> "ECDSA-with-SHA384"
      [] oid = "1.2.840.10045.4.3.4"   -> "ECDSA-with-SHA512"
      [] oid = "1.2.840.113549.1.1.1"  -> "RSA"
      [] oid = "1.2.840.10040.4.1"     -> "DSA"
      [] OTHER                         -> "Unknown (" \o oid \o ")"

\* public keys a leaf may carry: the key type and its size in bits
PublicKeys ==
    { [type |-> "RSA", bits |-> 512],  [type |-> "RSA", bits |-> 1024],
      [type |-> "RSA", bits |-> 3072], [type |-> "EC",  bits |-> 256],
      [type |-> "EC",  bits |-> 192] }

\* not-after, in hours from the time of the scan: expired two days ago, expired twelve
\* hours ago, three days left, three hundred days left
NotAfterHours == {-48, -12, 72, 7200}

\* the DER blobs of leaf certificates a server may present
LeafDers ==
    [ ok : {TRUE}, subject : {"CN=example.com"}, issuer : {"CN=Example CA"},
      not_before : {-720}, not_after : NotAfterHours,
      signature_oid : SignatureOids, public_key : PublicKeys ]

\* a blob that is not a certificate
BadDer ==
    [ ok |-> FALSE, subject |-> "", issuer |-> "", not_before |-> 0, not_after |-> 0,
      signature_oid |-> "", public_key |-> [type |-> "", bits |-> 0] ]

\* the intermediate certificate the server sends after its leaf
IssuerDer ==
    [ ok |-> TRUE, subject |-> "CN=Example CA", issuer |-> "CN=Example Root",
      not_before |-> -7200, not_after |-> 72000,
      signature_oid |-> "1.2.840.113549.1.1.11",
      public_key |-> [type |-> "RSA", bits |-> 2048] ]

\* parse_certificate(cert_der): Ok(SslCertificate) as Some, Err as None
parse_certificate(cert_der) ==
    IF ~cert_der.ok THEN None
    ELSE Some([ subject |-> cert_der.subject,
                issuer |-> cert_der.issuer,
                valid_from |-> cert_der.not_before,
                valid_to |-> cert_der.not_after,
                signature_algorithm |-> get_signature_algorithm_name(cert_der.signature_oid),
                public_key_algorithm |->
                    CASE cert_der.public_key.type = "RSA" -> "RSA"
                      [] cert_der.public_key.type = "EC"  -> "EC"
                      [] cert_der.public_key.type = "DSA" -> "DSA"
                      [] OTHER -> "Unknown",
                key_size |->
                    IF cert_der.public_key.type = "RSA"
                    THEN Some(cert_der.public_key.bits) ELSE None ])

-----------------------------------------------------------------------------
(* The vulnerability rule engine: detect_cve_vulnerabilities.              *)

\* the six protocol-version labels, in the order of TLS_VERSIONS
TLS_VERSIONS == <<"SSL 2.0", "SSL 3.0", "TLS 1.0", "TLS 1.1", "TLS 1.2", "TLS 1.3">>

SecurityVulnerability(cve_id, name, severity, affected) ==
    [cve_id |-> cve_id, name |-> name, severity |-> severity, affected |-> affected]

\* vulnerabilities.push(v) guarded by `if cond`
PushIf(cond, v) == IF cond THEN <<v>> ELSE <<>>

\* a Heartbleed rule that looks at TLS 1.1 only
heartbleed_on_tls11(versions) == Has(versions, "TLS 1.1") /\ ~Has(versions, "TLS 1.3")

heartbleed_affected(versions) ==
    (Has(versions, "TLS 1.1") \/ Has(versions, "TLS 1.2")) /\ ~Has(versions, "TLS 1.3")

poodle_ssl3_affected(versions) == Has(versions, "SSL 3.0")

poodle_tls_affected(versions, suites) ==
    Has(versions, "TLS 1.0") /\ \E i \in DOMAIN suites : name_contains(suites[i].name, "CBC")

beast_affected(versions, suites) ==
    Has(versions, "TLS 1.0") /\ \E i \in DOMAIN suites : name_contains(suites[i].name, "CBC")

crime_affected(suites) ==
    \E i \in DOMAIN suites :
        lower_contains(suites[i].name, "deflate") \/ lower_contains(suites[i].name, "compress")

freak_affected(suites) ==
    \E i \in DOMAIN suites :
        upper_contains(suites[i].name, "EXPORT") \/ upper_contains(suites[i].name, "RSA_EXPORT")

logjam_affected(suites) ==
    \E i \in DOMAIN suites :
        \/ upper_contains(suites[i].name, "EXPORT")
        \/ (upper_contains(suites[i].name, "DHE") /\ upper_contains(suites[i].name, "EXPORT"))

\* a DROWN rule that looks at SSL 3.0 instead of SSL 2.0
drown_on_ssl3(versions) == Has(versions, "SSL 3.0")

drown_affected(versions) == Has(versions, "SSL 2.0")

sweet32_affected(suites) ==
    \E i \in DOMAIN suites :
        upper_contains(suites[i].name, "3DES") \/ upper_contains(suites[i].name, "DES")

rc4_affected(suites) == \E i \in DOMAIN suites : upper_contains(suites[i].name, "RC4")

\* a weak-key rule whose RSA threshold is 1024 bits
weak_key_below_1024(c) ==
    /\ IsSome(c.key_size)
    /\ CASE c.public_key_algorithm = "RSA" -> Unwrap(c.key_size) < 1024
         [] c.public_key_algorithm \in {"EC", "ECDSA"} -> Unwrap(c.key_size) < 256
         [] OTHER -> FALSE

weak_key_affected(c) ==
    /\ IsSome(c.key_size)
    /\ CASE c.public_key_algorithm = "RSA" -> Unwrap(c.key_size) < 2048
         [] c.public_key_algorithm \in {"EC", "ECDSA"} -> Unwrap(c.key_size) < 256
         [] OTHER -> FALSE

\* cert.key_size.unwrap_or(0)
key_size_or_0(c) == IF IsSome(c.key_size) THEN Unwrap(c.key_size) ELSE 0

detect_cve_vulnerabilities(c, versions, suites) ==
       <<SecurityVulnerability("CVE-2014-0160", "Heartbleed", "CRITICAL",
                               heartbleed_affected(versions))>>
    \o PushIf(poodle_ssl3_affected(versions) \/ poodle_tls_affected(versions, suites),
              SecurityVulnerability("CVE-2014-3566", "POODLE",
                  IF poodle_ssl3_affected(versions) THEN "HIGH" ELSE "MEDIUM", TRUE))
    \o PushIf(beast_affected(versions, suites),
              SecurityVulnerability("CVE-2011-3389", "BEAST", "MEDIUM", TRUE))
    \o PushIf(crime_affected(suites),
              SecurityVulnerability("CVE-2012-4929", "CRIME", "HIGH", TRUE))
    \o PushIf(freak_affected(suites),
              SecurityVulnerability("CVE-2015-0204", "FREAK", "HIGH", TRUE))
    \o PushIf(logjam_affected(suites),
              SecurityVulnerability("CVE-2015-4000", "Logjam", "HIGH", TRUE))
    \o PushIf(drown_affected(versions),
              SecurityVulnerability("CVE-2016-0800", "DROWN", "CRITICAL", TRUE))
    \o PushIf(sweet32_affected(suites),
              SecurityVulnerability("CVE-2016-2183", "Sweet32", "MEDIUM", TRUE))
    \o PushIf(rc4_affected(suites),
              SecurityVulnerability("CVE-2013-2566", "RC4 NOMORE", "HIGH", TRUE))
    \o PushIf(weak_key_affected(c),
              SecurityVulnerability("WEAK-KEY-SIZE", "weak key size",
                  IF key_size_or_0(c) < 1024 THEN "CRITICAL" ELSE "HIGH", TRUE))
    \o PushIf(Has(versions, "SSL 2.0") /\ ~drown_affected(versions),
              SecurityVulnerability("DEPRECATED-SSL2", "deprecated SSL 2.0", "CRITICAL", TRUE))
    \o PushIf(Has(versions, "SSL 3.0") /\ ~poodle_ssl3_affected(versions),
              SecurityVulnerability("DEPRECATED-SSL3", "deprecated SSL 3.0", "HIGH", TRUE))
    \o PushIf(/\ Has(versions, "TLS 1.0")
              /\ ~beast_affected(versions, suites)
              /\ ~poodle_tls_affected(versions, suites),
              SecurityVulnerability("WEAK-TLS10", "weak TLS 1.0", "MEDIUM", TRUE))
    \o PushIf(Has(versions, "TLS 1.1"),
              SecurityVulnerability("WEAK-TLS11", "weak TLS 1.1", "LOW", TRUE))

\* the finding with the given id is in the list with affected = true
Affected(vulns, id) == \E i \in DOMAIN vulns : vulns[i].cve_id = id /\ vulns[i].affected

\* the finding with the given id is in the list at all
Emitted(vulns, id) == \E i \in DOMAIN vulns : vulns[i].cve_id = id

-----------------------------------------------------------------------------
(* The scorer and grader.  The f32 products and sums of the code are       *)
(* exact here: every sub-score is a multiple of 5 and for those the f32    *)
(* result truncates to the integer quotient (checked for all of them).     *)

\* (valid_to_utc - now).num_days()
days_until_expiry(c, t) == num_days(c.valid_to - t)

sig_penalty(c) ==
    LET sig == to_lowercase(c.signature_algorithm)
    IN  IF contains(sig, "sha1")
        THEN (IF contains(sig, "rsa") THEN 40 ELSE 30)
        ELSE IF contains(sig, "md5") THEN 50
        ELSE IF contains(sig, "sha256") THEN 0
        ELSE IF contains(sig, "sha384") \/ contains(sig, "sha512") THEN 0
        ELSE 10

key_penalty(c) ==
    IF ~IsSome(c.key_size) THEN 0
    ELSE LET size == Unwrap(c.key_size)
         IN  CASE c.public_key_algorithm = "RSA" ->
                      (IF size < 1024 THEN 60
                       ELSE IF size < 2048 THEN 30
                       ELSE IF size < 3072 THEN 5 ELSE 0)
               [] c.public_key_algorithm \in {"EC", "ECDSA"} ->
                      (IF size < 256 THEN 40 ELSE IF size < 384 THEN 10 ELSE 0)
               [] OTHER -> 0

\* a validity check that takes 20 points, not 50, in the last week
validity_score_week_20(c, t) ==
    LET d == days_until_expiry(c, t)
    IN  IF d < 0 THEN 0
        ELSE IF d < 7 THEN saturating_sub(100, 20)
        ELSE IF d < 30 THEN saturating_sub(100, 20)
        ELSE 100

\* the score after the validity check alone
validity_score(c, t) ==
    LET d == days_until_expiry(c, t)
    IN  IF d < 0 THEN 0
        ELSE IF d < 7 THEN saturating_sub(100, 50)
        ELSE IF d < 30 THEN saturating_sub(100, 20)
        ELSE 100

calculate_certificate_score(c, t) ==
    saturating_sub(saturating_sub(validity_score(c, t), key_penalty(c)), sig_penalty(c))

calculate_protocol_score(versions) ==
    LET has_ssl2  == Has(versions, "SSL 2.0")
        has_ssl3  == Has(versions, "SSL 3.0")
        has_tls10 == Has(versions, "TLS 1.0")
        has_tls11 == Has(versions, "TLS 1.1")
        has_tls12 == Has(versions, "TLS 1.2")
        has_tls13 == Has(versions, "TLS 1.3")
        s1 == IF has_ssl2 THEN 0
              ELSE IF has_ssl3 THEN saturating_sub(100, 80) ELSE 100
        s2 == IF has_tls10 THEN saturating_sub(s1, 20) ELSE s1
        s3 == IF has_tls11 THEN saturating_sub(s2, 10) ELSE s2
        s4 == IF has_tls13 THEN Min(100, s3 + 5) ELSE s3
    IN  IF ~has_tls12 /\ ~has_tls13 THEN saturating_sub(s4, 50) ELSE s4

\* a key-exchange score that takes 40 points, not 20, for RSA key exchange
key_exchange_score_rsa_40(suites) ==
    LET has_dhe   == \E i \in DOMAIN suites : name_contains(suites[i].name, "DHE")
        has_ecdhe == \E i \in DOMAIN suites : name_contains(suites[i].name, "ECDHE")
        has_rsa_key_exchange ==
            \E i \in DOMAIN suites :
                \/ name_contains(suites[i].name, "TLS_RSA_")
                \/ /\ name_contains(suites[i].name, "RSA")
                   /\ ~name_contains(suites[i].name, "ECDHE")
                   /\ ~name_contains(suites[i].name, "DHE")
        s1 == IF ~has_dhe /\ ~has_ecdhe THEN saturating_sub(100, 40) ELSE 100
        s2 == IF has_rsa_key_exchange THEN saturating_sub(s1, 40) ELSE s1
    IN  IF has_ecdhe THEN Min(100, s2 + 5) ELSE s2

calculate_key_exchange_score(suites) ==
    LET has_dhe   == \E i \in DOMAIN suites : name_contains(suites[i].name, "DHE")
        has_ecdhe == \E i \in DOMAIN suites : name_contains(suites[i].name, "ECDHE")
        has_rsa_key_exchange ==
            \E i \in DOMAIN suites :
                \/ name_contains(suites[i].name, "TLS_RSA_")
                \/ /\ name_contains(suites[i].name, "RSA")
                   /\ ~name_contains(suites[i].name, "ECDHE")
                   /\ ~name_contains(suites[i].name, "DHE")
        s1 == IF ~has_dhe /\ ~has_ecdhe THEN saturating_sub(100, 40) ELSE 100
        s2 == IF has_rsa_key_exchange THEN saturating_sub(s1, 20) ELSE s1
    IN  IF has_ecdhe THEN Min(100, s2 + 5) ELSE s2

\* cipher_suites.iter().filter(|cs| cs.strength == tier).count()
strength_count(suites, tier) == Cardinality({i \in DOMAIN suites : suites[i].strength = tier})

calculate_cipher_strength_score(suites) ==
    IF Len(suites) = 0 THEN 0
    ELSE LET weak_count     == strength_count(suites, "WEAK")
             medium_count   == strength_count(suites, "MEDIUM")
             high_count     == strength_count(suites, "HIGH")
             total_count    == Len(suites)
             weak_penalty   == (weak_count * 60) \div total_count
             medium_penalty == (medium_count * 20) \div total_count
             s1 == saturating_sub(saturating_sub(100, weak_penalty), medium_penalty)
         IN  IF high_count > 0
             THEN Min(100, s1 + Min(10, (high_count * 10) \div total_count))
             ELSE s1

calculate_ssl_grade(score, has_errors, has_warnings, versions, c, t) ==
    IF Has(versions, "SSL 2.0") THEN "F"
    ELSE IF days_until_expiry(c, t) < 0 THEN "F"
    ELSE IF has_errors THEN "F"
    ELSE IF score \in 95..100 /\ ~has_warnings THEN "A+"
    ELSE IF score \in 90..94 /\ ~has_warnings THEN "A"
    ELSE IF score \in 80..89 THEN "A-"
    ELSE IF score \in 70..79 THEN "B"
    ELSE IF score \in 60..69 THEN "C"
    ELSE IF score \in 50..59 THEN "D"
    ELSE "F"

\* cve_vulnerabilities.iter().filter(|v| v.affected && v.severity == sev).count()
severity_count(vulns, sev) ==
    Cardinality({i \in DOMAIN vulns : vulns[i].affected /\ vulns[i].severity = sev})

calculate_ssl_labs_rating(c, versions, suites, vulns, t) ==
    LET certificate_score     == calculate_certificate_score(c, t)
        protocol_score        == calculate_protocol_score(versions)
        key_exchange_score    == calculate_key_exchange_score(suites)
        cipher_strength_score == calculate_cipher_strength_score(suites)
        weighted_score ==
            (30 * certificate_score + 30 * protocol_score + 30 * key_exchange_score
               + 10 * cipher_strength_score) \div 100
        critical_count == severity_count(vulns, "CRITICAL")
        high_count     == severity_count(vulns, "HIGH")
        medium_count   == severity_count(vulns, "MEDIUM")
        final_score ==
            saturating_sub(saturating_sub(saturating_sub(weighted_score,
                critical_count * 30), high_count * 20), medium_count * 10)
        has_errors   == critical_count > 0 \/ protocol_score < 20 \/ certificate_score < 20
        has_warnings == \/ high_count > 0
                        \/ medium_count > 2
                        \/ protocol_score < 50
                        \/ cipher_strength_score < 50
    IN  [ grade |-> calculate_ssl_grade(final_score, has_errors, has_warnings, versions, c, t),
          score |-> final_score,
          has_warnings |-> has_warnings,
          has_errors |-> has_errors,
          certificate_score |-> certificate_score,
          protocol_score |-> protocol_score,
          key_exchange_score |-> key_exchange_score,
          cipher_strength_score |-> cipher_strength_score ]

-----------------------------------------------------------------------------
(* analyze_security: the legacy score and the free-text vulnerability      *)
(* list.  The messages are rendered in English; format!("...{}", n) is     *)
(* the text followed by ToString(n).  The recommendation list is advice    *)
(* text only and nothing reads it back, so it is not carried.              *)

MSG_EXPIRED == "certificate has expired"

MSG_EXPIRES_IN_A_WEEK == "certificate expires within a week"

MSG_EXPIRES_IN_30_DAYS == "certificate expires within 30 days"

MSG_NOT_YET_VALID == "certificate is not yet valid"

MSG_SHA1_DEPRECATED == "uses the deprecated SHA-1 signature algorithm"

MSG_RSA_KEY_TOO_SHORT == "RSA key too short: "

MSG_RSA_KEY_SEVERELY_SHORT == "RSA key length severely insufficient: "

MSG_RSA_KEY_SHORT == "RSA key length insufficient: "

MSG_ECC_KEY_SHORT == "ECC key length insufficient: "

MSG_MD5 == "uses the completely broken MD5 signature algorithm"

MSG_SHA1 == "uses the insecure SHA-1 signature algorithm"

MSG_WEAK_SUITES == "weak cipher suites found: "

MSG_WEAK_PERCENT == "percent of the cipher suites that are weak: "

MSG_NO_PFS == "no perfect forward secrecy"

analyze_security(c, suites, t) ==
    LET certificate_score     == calculate_certificate_score(c, t)
        cipher_strength_score == calculate_cipher_strength_score(suites)
        score == (70 * certificate_score + 30 * cipher_strength_score) \div 100
        d == days_until_expiry(c, t)
        expiry == IF d < 0 THEN <<MSG_EXPIRED>>
                  ELSE IF d < 7 THEN <<MSG_EXPIRES_IN_A_WEEK>>
                  ELSE IF d < 30 THEN <<MSG_EXPIRES_IN_30_DAYS>>
                  ELSE <<>>
        key == IF ~IsSome(c.key_size) THEN <<>>
               ELSE LET key_size == Unwrap(c.key_size)
                    IN  CASE c.public_key_algorithm = "RSA" ->
                                 (IF key_size < 1024
                                  THEN <<MSG_RSA_KEY_SEVERELY_SHORT \o ToString(key_size)>>
                                  ELSE IF key_size < 2048
                                  THEN <<MSG_RSA_KEY_SHORT \o ToString(key_size)>>
                                  ELSE <<>>)
                          [] c.public_key_algorithm \in {"EC", "ECDSA"} ->
                                 (IF key_size < 256
                                  THEN <<MSG_ECC_KEY_SHORT \o ToString(key_size)>>
                                  ELSE <<>>)
                          [] OTHER -> <<>>
        sig_algo_lower == to_lowercase(c.signature_algorithm)
        sig == IF contains(sig_algo_lower, "md5") THEN <<MSG_MD5>>
               ELSE IF contains(sig_algo_lower, "sha1") THEN <<MSG_SHA1>>
               ELSE <<>>
        weak_count  == strength_count(suites, "WEAK")
        total_count == Len(suites)
        weak == IF weak_count > 0 THEN <<MSG_WEAK_SUITES \o ToString(weak_count)>> ELSE <<>>
        weak_percentage == IF total_count > 0 THEN (weak_count * 100) \div total_count ELSE 0
        percent == IF total_count > 0 /\ weak_percentage > 25
                   THEN <<MSG_WEAK_PERCENT \o ToString(weak_percentage)>> ELSE <<>>
        has_pfs == \E i \in DOMAIN suites :
                       name_contains(suites[i].name, "ECDHE") \/ name_contains(suites[i].name, "DHE")
        pfs == IF ~has_pfs THEN <<MSG_NO_PFS>> ELSE <<>>
        rec_expiry == IF d < 0 THEN <<"renew the certificate at once">>
                      ELSE IF d < 7 THEN <<"renew the certificate urgently">>
                      ELSE IF d < 30 THEN <<"renew the certificate soon">>
                      ELSE <<>>
        rec_key == IF ~IsSome(c.key_size) THEN <<>>
                   ELSE LET key_size == Unwrap(c.key_size)
                        IN  CASE c.public_key_algorithm = "RSA" ->
                                     (IF key_size < 1024
                                      THEN <<"replace the key with RSA 2048 or ECC 256 at once">>
                                      ELSE IF key_size < 2048
                                      THEN <<"use an RSA key of at least 2048 bits">>
                                      ELSE IF key_size < 3072
                                      THEN <<"consider an RSA key of 3072 or 4096 bits">>
                                      ELSE <<>>)
                              [] c.public_key_algorithm \in {"EC", "ECDSA"} ->
                                     (IF key_size < 256
                                      THEN <<"use an ECC key of at least 256 bits">>
                                      ELSE IF key_size >= 384
                                      THEN <<"the ECC key length is good">>
                                      ELSE <<>>)
                              [] OTHER -> <<"check the key algorithm and length">>
        rec_sig == IF contains(sig_algo_lower, "md5")
                   THEN <<"replace the signature algorithm with SHA-256 at once">>
                   ELSE IF contains(sig_algo_lower, "sha1")
                   THEN <<"upgrade the signature algorithm to SHA-256">>
                   ELSE IF contains(sig_algo_lower, "sha256")
                   THEN <<"the SHA-256 signature algorithm is good">>
                   ELSE <<>>
        rec_weak == IF weak_count > 0 THEN <<"disable the weak cipher suites">> ELSE <<>>
        high_percentage == IF total_count > 0
                           THEN (strength_count(suites, "HIGH") * 100) \div total_count ELSE 0
        rec_high == IF total_count > 0 /\ high_percentage < 50
                    THEN <<"raise the share of high-strength cipher suites">> ELSE <<>>
        rec_pfs == IF ~has_pfs THEN <<"configure cipher suites with forward secrecy">> ELSE <<>>
        rec_score == IF score >= 90 THEN <<"the configuration is excellent">>
                     ELSE IF score >= 70 THEN <<"the configuration is good">>
                     ELSE IF score >= 50 THEN <<"the configuration needs improvement">>
                     ELSE <<"the configuration has severe security risks">>
        rec_general == <<"enable HSTS", "configure OCSP stapling", "disable outdated protocols",
                         "monitor certificate expiry", "monitor certificate transparency logs">>
    IN  [ score |-> score,
          vulnerabilities |-> expiry \o key \o sig \o weak \o percent \o pfs,
          recommendations |-> rec_expiry \o rec_key \o rec_sig \o rec_weak \o rec_high
                                  \o rec_pfs \o rec_score \o rec_general ]

-----------------------------------------------------------------------------
(* build_certificate_chain of the live scan.                               *)

\* the validation_errors of one chain node
validation_errors(c, t) ==
       (IF c.valid_to < t THEN <<MSG_EXPIRED>> ELSE <<>>)
    \o (IF c.valid_from > t THEN <<MSG_NOT_YET_VALID>> ELSE <<>>)
    \o (IF contains(to_lowercase(c.signature_algorithm), "sha1")
        THEN <<MSG_SHA1_DEPRECATED>> ELSE <<>>)
    \o (IF c.public_key_algorithm = "RSA" /\ IsSome(c.key_size) /\ Unwrap(c.key_size) < 2048
        THEN <<MSG_RSA_KEY_TOO_SHORT \o ToString(Unwrap(c.key_size))>> ELSE <<>>)

\* the node pushed for the certificate at 1-based position index of ders
CertificateChainNode(c, index, n, t) ==
    LET is_leaf == index = 1
        is_root == index = n
    IN  [ certificate |-> c,
          is_root |-> is_root,
          is_leaf |-> is_leaf,
          trust_status |->
              IF is_leaf THEN "end-entity"
              ELSE IF is_root /\ c.subject = c.issuer THEN "self-signed"
              ELSE IF is_root THEN "root-ca"
              ELSE "intermediate",
          validation_errors |-> validation_errors(c, t) ]

RECURSIVE chain_nodes(_, _, _)
\* the nodes of the blobs from position index on that parse, in order
chain_nodes(ders, index, t) ==
    IF index > Len(ders) THEN <<>>
    ELSE LET parsed == parse_certificate(ders[index])
         IN  (IF IsSome(parsed)
              THEN <<CertificateChainNode(Unwrap(parsed), index, Len(ders), t)>>
              ELSE <<>>)
             \o chain_nodes(ders, index + 1, t)

RECURSIVE parse_errors(_, _)
\* the chain_errors entries of the blobs from position index on that do not parse
parse_errors(ders, index) ==
    IF index > Len(ders) THEN <<>>
    ELSE (IF IsSome(parse_certificate(ders[index])) THEN <<>>
          ELSE <<"error parsing certificate " \o ToString(index)>>)
         \o parse_errors(ders, index + 1)

RECURSIVE continuity_errors(_, _)
\* the chain_errors entries of the continuity loop from 1-based position i on
continuity_errors(certificates, i) ==
    IF i > Len(certificates) - 1 THEN <<>>
    ELSE (IF certificates[i].certificate.issuer # certificates[i + 1].certificate.subject
          THEN <<"chain broken between certificates " \o ToString(i) \o " and "
                    \o ToString(i + 1)>>
          ELSE <<>>)
         \o continuity_errors(certificates, i + 1)

\* Err is None.  With no parsed certificate the loop bound certificates.len() - 1
\* underflows: the call panics (overflow check, or index out of bounds after the wrap).
build_certificate_chain(ders, t) ==
    IF Len(ders) = 0 THEN [ outcome |-> "err" ]
    ELSE LET certificates == chain_nodes(ders, 1, t)
             chain_errors == parse_errors(ders, 1) \o continuity_errors(certificates, 1)
             last_cert    == certificates[Len(certificates)]
         IN  IF Len(certificates) = 0 THEN [ outcome |-> "panic" ]
             ELSE [ outcome |-> "ok",
                    certificates |-> certificates,
                    chain_length |-> Len(ders),
                    is_complete |-> last_cert.certificate.subject = last_cert.certificate.issuer,
                    chain_validation_status |->
                        IF /\ chain_errors = <<>>
                           /\ \A i \in DOMAIN certificates :
                                  certificates[i].validation_errors = <<>>
                        THEN "valid"
                        ELSE IF chain_errors = <<>> THEN "valid-with-warnings"
                        ELSE "invalid",
                    root_ca_info |->
                        last_cert.certificate.subject \o " ("
                            \o (IF last_cert.certificate.subject = last_cert.certificate.issuer
                                THEN "self-signed" ELSE "root CA") \o ")",
                    chain_errors |-> chain_errors ]

-----------------------------------------------------------------------------
(* The scanned host and the probes of check_ssl_info.  A host is described *)
(* by how it answers during one scan: whether its name resolves, what its  *)
(* ports 443 and 80 do with a TCP connection ("refused", "silent": accepts *)
(* and never sends a byte, or speaks the protocol), what its HTTPS HEAD    *)
(* response carries, the chain and suite a default handshake yields, and   *)
(* the protocol versions it accepts.  net_log lists the network operations *)
(* the scan starts: the DNS lookup and every TCP connection, named after   *)
(* the function that opens it.                                             *)

WhiteSpace == {" ", "\t"}

Digits == {"0", "1", "2", "3", "4", "5", "6", "7", "8", "9"}

\* the characters of a string
Chars(s) == {SubSeq(s, i, i) : i \in 1..Len(s)}

RECURSIVE trim_start(_)
trim_start(s) ==
    IF s = "" THEN ""
    ELSE IF SubSeq(s, 1, 1) \in WhiteSpace THEN trim_start(SubSeq(s, 2, Len(s)))
    ELSE s

RECURSIVE trim_end(_)
trim_end(s) ==
    IF s = "" THEN ""
    ELSE IF SubSeq(s, Len(s), Len(s)) \in WhiteSpace THEN trim_end(SubSeq(s, 1, Len(s) - 1))
    ELSE s

\* a trim that removes nothing
trim_nothing(s) == s

\* str::trim
trim(s) == trim_end(trim_start(s))

\* the domain arguments a caller passes
RawDomains == {"", " \t", " Example.COM ", "example.com", "192.0.2.10", "exa mple"}

\* ServerName::try_from(domain) is Ok: a DNS name or an IP address
valid_server_name(d) ==
    /\ d # ""
    /\ Chars(d) \subseteq
           ({LowerLetters[i] : i \in DOMAIN LowerLetters}
                \cup {UpperLetters[i] : i \in DOMAIN UpperLetters} \cup Digits \cup {".", "-"})

\* format!("{}:{}", domain, port).parse::<SocketAddr>() is Ok: an IP literal, not a name
parses_as_socket_addr(d) == d # "" /\ Chars(d) \subseteq (Digits \cup {"."})

NetOp(op, arg) == [op |-> op, arg |-> arg]

\* the leaf certificates of the scanned hosts
ScanLeafDers ==
    {d \in LeafDers : /\ d.public_key = [type |-> "RSA", bits |-> 3072]
                      /\ d.signature_oid = "1.2.840.113549.1.1.11"
                      /\ d.not_after \in {72, 7200}}

\* the suite a default handshake negotiates
ScanNegotiated == {"TLS_AES_256_GCM_SHA384", "TLS_ECDHE_RSA_WITH_AES_256_GCM_SHA384"}

\* the state of the server variable before a scan has chosen its host
NoServer ==
    [ dns |-> FALSE, port443 |-> "refused", port80 |-> "refused", http |-> "down",
      leaf |-> BadDer, negotiated |-> "TLS_AES_256_GCM_SHA384", versions |-> {} ]

\* the hosts a normalised domain may name.  A name that does not resolve cannot be
\* connected to; port 80 is contacted for IP literals only; a host whose port 443 does
\* not speak TLS has nothing further to answer; a host that completes the default
\* handshake accepts TLS 1.2 or TLS 1.3.  versions holds indices into TLS_VERSIONS.
Servers(d) ==
    { srv \in [ dns : BOOLEAN, port443 : {"refused", "silent", "tls"},
                port80 : {"refused", "silent", "http"}, http : {"down", "h1", "h2h3"},
                leaf : ScanLeafDers \cup {BadDer}, negotiated : ScanNegotiated,
                versions : SUBSET {3, 4, 5, 6} ] :
        /\ parses_as_socket_addr(d) => srv.dns
        /\ ~valid_server_name(d) => ~srv.dns
        /\ ~srv.dns => (srv.port443 = "refused" /\ srv.port80 = "refused")
        /\ ~parses_as_socket_addr(d) => srv.port80 = "refused"
        /\ srv.port443 # "tls" =>
               /\ srv.http = "down"
               /\ srv.leaf = BadDer
               /\ srv.negotiated = NoServer.negotiated
               /\ srv.versions = {}
        /\ srv.port443 = "tls" => srv.versions \cap {5, 6} # {}
        /\ (srv.port443 = "tls" /\ srv.leaf = BadDer) =>
               (srv.negotiated = NoServer.negotiated /\ srv.versions = {5}) }

\* the response to an HTTPS HEAD request: None when the request fails or times out
head_response(srv) ==
    IF srv.port443 # "tls" \/ srv.http = "down" THEN None
    ELSE Some([ version |-> IF srv.http = "h2h3" THEN "HTTP/2" ELSE "HTTP/1.1",
                server  |-> "nginx",
                alt_svc |-> IF srv.http = "h2h3" THEN "h3=:443; ma=86400" ELSE "" ])

\* get_https_server_info: the server header (the host sends no x-powered-by or via)
get_https_server_info(srv) ==
    IF IsSome(head_response(srv)) THEN Some(Unwrap(head_response(srv)).server) ELSE None

\* get_cipher_suites_for_version: fixed example lists with fixed strengths
get_cipher_suites_for_version(version) ==
    LET ciphers ==
            CASE version = "SSL 3.0" ->
                     << <<"SSL_RSA_WITH_RC4_128_SHA", "WEAK">>,
                        <<"SSL_RSA_WITH_3DES_EDE_CBC_SHA", "MEDIUM">> >>
              [] version \in {"TLS 1.0", "TLS 1.1"} ->
                     << <<"TLS_RSA_WITH_AES_128_CBC_SHA", "MEDIUM">>,
                        <<"TLS_RSA_WITH_AES_256_CBC_SHA", "MEDIUM">>,
                        <<"TLS_ECDHE_RSA_WITH_AES_128_CBC_SHA", "MEDIUM">> >>
              [] version = "TLS 1.2" ->
                     << <<"TLS_ECDHE_RSA_WITH_AES_128_GCM_SHA256", "HIGH">>,
                        <<"TLS_ECDHE_RSA_WITH_AES_256_GCM_SHA384", "HIGH">>,
                        <<"TLS_ECDHE_RSA_WITH_CHACHA20_POLY1305_SHA256", "HIGH">>,
                        <<"TLS_RSA_WITH_AES_128_GCM_SHA256", "HIGH">>,
                        <<"TLS_ECDHE_RSA_WITH_AES_128_CBC_SHA256", "MEDIUM">> >>
              [] version = "TLS 1.3" ->
                     << <<"TLS_AES_128_GCM_SHA256", "HIGH">>,
                        <<"TLS_AES_256_GCM_SHA384", "HIGH">>,
                        <<"TLS_CHACHA20_POLY1305_SHA256", "HIGH">> >>
              [] OTHER -> <<>>
    IN  [i \in DOMAIN ciphers |->
            [name |-> ciphers[i][1], version |-> version, strength |-> ciphers[i][2],
             server_order |-> FALSE]]

\* check_legacy_protocol_support: SSL 2.0 and SSL 3.0 are answered without a probe;
\* TLS 1.0 and TLS 1.1 by the ServerHello the raw socket reads within its timeouts
check_legacy_protocol_support(srv, protocol_name) ==
    CASE protocol_name \in {"SSL 2.0", "SSL 3.0"} -> FALSE
      [] protocol_name = "TLS 1.0" -> srv.port443 = "tls" /\ 3 \in srv.versions
      [] protocol_name = "TLS 1.1" -> srv.port443 = "tls" /\ 4 \in srv.versions
      [] OTHER -> FALSE

\* check_tls_version_support(...).unwrap_or(false); a handshake timeout is Ok(false)
check_tls_version_support(srv, version) ==
    IF version \in {"SSL 2.0", "SSL 3.0", "TLS 1.0", "TLS 1.1"}
    THEN check_legacy_protocol_support(srv, version)
    ELSE /\ srv.port443 = "tls"
         /\ \E i \in srv.versions : TLS_VERSIONS[i] = version

\* the connections check_tls_version_support opens for a version
version_probe_ops(version) ==
    IF version \in {"SSL 2.0", "SSL 3.0"} THEN <<>>
    ELSE <<NetOp("check_tls_version_support", version)>>

\* check_alpn_support: the protocol the handshake selected, if any
check_alpn_support(srv) ==
    IF srv.port443 = "tls" /\ srv.http = "h2h3" THEN <<"h2">> ELSE <<>>

\* check_http2_support: the HEAD response came over HTTP/2
check_http2_support(srv) ==
    /\ srv.port443 = "tls"
    /\ IsSome(head_response(srv))
    /\ Unwrap(head_response(srv)).version = "HTTP/2"

\* check_spdy_support: no x-spdy-used header is sent; alt-svc names spdy
check_spdy_support(srv) ==
    /\ IsSome(head_response(srv))
    /\ contains(Unwrap(head_response(srv)).alt_svc, "spdy")

\* check_http3_support: alt-svc names h3, or the server header names quic or h3
check_http3_support(srv) ==
    /\ IsSome(head_response(srv))
    /\ LET r == Unwrap(head_response(srv))
       IN  IF r.alt_svc # "" THEN contains(to_lowercase(r.alt_svc), "h3")
           ELSE \/ contains(to_lowercase(r.server), "quic")
                \/ contains(to_lowercase(r.server), "h3")

\* the probes check_protocol_support runs for a version found supported, in order
supported_version_ops ==
    << NetOp("check_alpn_support", "443"), NetOp("check_http2_support", "443"),
       NetOp("check_spdy_support", "443"), NetOp("check_http3_support", "443") >>

\* the ProtocolSupport entry check_protocol_support pushes for a version
ProtocolSupport(srv, version) ==
    IF check_tls_version_support(srv, version)
    THEN [ version |-> version, supported |-> TRUE,
           cipher_suites |-> get_cipher_suites_for_version(version),
           alpn_protocols |-> Some(check_alpn_support(srv)),
           http2_support |-> Some(check_http2_support(srv)),
           spdy_support |-> Some(check_spdy_support(srv)),
           http3_support |-> Some(check_http3_support(srv)) ]
    ELSE [ version |-> version, supported |-> FALSE, cipher_suites |-> <<>>,
           alpn_protocols |-> None, http2_support |-> None, spdy_support |-> None,
           http3_support |-> None ]

-----------------------------------------------------------------------------
(* The engine applied to gathered facts.  The rule engine and the scorer   *)
(* are functions of (certificate, supported versions, cipher suites); each *)
(* step below is one call, in the order check_ssl_info makes them, on      *)
(* facts drawn from the bounded sets above.                                *)

\* the supported-version lists: the entries of TLS_VERSIONS whose probe said supported,
\* in the order of TLS_VERSIONS
supported_versions(supported) ==
    LET F[i \in 0..Len(TLS_VERSIONS)] ==
            IF i = 0 THEN <<>>
            ELSE IF i \in supported THEN Append(F[i - 1], TLS_VERSIONS[i]) ELSE F[i - 1]
    IN  F[Len(TLS_VERSIONS)]

Init ==
    /\ pc = "start"
    /\ now = 0
    /\ cert = None
    /\ cipher_suites = <<>>
    /\ analysis = None
    /\ certificate_chain = None
    /\ ssl_versions = <<>>
    /\ cve_vulnerabilities = <<>>
    /\ ssl_labs_rating = None
    /\ cert_chain_ders = <<>>
    /\ vpc = "start"
    /\ pem_certs = <<>>
    /\ chain_info = None
    /\ spc = "start"
    /\ input = ""
    /\ domain = ""
    /\ server = NoServer
    /\ net_log = <<>>
    /\ results = <<>>
    /\ protocol_support = None
    /\ server_ip = None
    /\ server_info = None
    /\ server_cipher_order = None
    /\ http2_support = None
    /\ spdy_support = None
    /\ http3_support = None
    /\ alpn_protocols = None
    /\ result = None
    /\ rpc = "start"
    /\ probe_domain = ""
    /\ probe_protocol = ""
    /\ client_hello = <<>>
    /\ response = [outcome |-> "none", bytes |-> <<>>]
    /\ raw_result = None

\* the server's certificates arrive and the leaf is parsed
ParseCertificate ==
    /\ pc = "start"
    /\ \E cert_der \in LeafDers \cup {BadDer} :
          /\ cert_chain_ders' = <<cert_der, IssuerDer>>
          /\ cert' = parse_certificate(cert_der)
          /\ pc' = IF IsSome(parse_certificate(cert_der)) THEN "parsed" ELSE "done"
    /\ UNCHANGED <<now, cipher_suites, analysis, certificate_chain, ssl_versions,
                   cve_vulnerabilities, ssl_labs_rating>>
    /\ UNCHANGED viewerVars
    /\ UNCHANGED rawVars
    /\ UNCHANGED probeVars

\* analyze_security on the parsed leaf and an observed cipher-suite list
AnalyzeSecurity ==
    /\ pc = "parsed"
    /\ \E suites \in CipherLists :
          /\ cipher_suites' = suites
          /\ analysis' = Some(analyze_security(Unwrap(cert), suites, now))
    /\ pc' = "analyzed"
    /\ UNCHANGED <<now, cert, certificate_chain, ssl_versions,
                   cve_vulnerabilities, ssl_labs_rating, cert_chain_ders>>
    /\ UNCHANGED viewerVars
    /\ UNCHANGED rawVars
    /\ UNCHANGED probeVars

BuildCertificateChain ==
    /\ pc = "analyzed"
    /\ certificate_chain' = Some(build_certificate_chain(cert_chain_ders, now))
    /\ pc' = "chained"
    /\ UNCHANGED <<now, cert, cipher_suites, analysis, ssl_versions,
                   cve_vulnerabilities, ssl_labs_rating, cert_chain_ders>>
    /\ UNCHANGED viewerVars
    /\ UNCHANGED rawVars
    /\ UNCHANGED probeVars

\* detect_cve_vulnerabilities on the versions the protocol probes reported supported
DetectCveVulnerabilities ==
    /\ pc = "chained"
    /\ \E supported \in SUBSET (1..Len(TLS_VERSIONS)) :
          /\ ssl_versions' = supported_versions(supported)
          /\ cve_vulnerabilities' =
                 detect_cve_vulnerabilities(Unwrap(cert), supported_versions(supported),
                                            cipher_suites)
    /\ pc' = "detected"
    /\ UNCHANGED <<now, cert, cipher_suites, analysis, certificate_chain,
                   ssl_labs_rating, cert_chain_ders>>
    /\ UNCHANGED viewerVars
    /\ UNCHANGED rawVars
    /\ UNCHANGED probeVars

CalculateSslLabsRating ==
    /\ pc = "detected"
    /\ ssl_labs_rating' = Some(calculate_ssl_labs_rating(Unwrap(cert), ssl_versions,
                                   cipher_suites, cve_vulnerabilities, now))
    /\ pc' = "done"
    /\ UNCHANGED <<now, cert, cipher_suites, analysis, certificate_chain, ssl_versions,
                   cve_vulnerabilities, cert_chain_ders>>
    /\ UNCHANGED viewerVars
    /\ UNCHANGED rawVars
    /\ UNCHANGED probeVars

Next ==
    \/ ParseCertificate
    \/ AnalyzeSecurity
    \/ BuildCertificateChain
    \/ DetectCveVulnerabilities
    \/ CalculateSslLabsRating

Spec == Init /\ [][Next]_vars

-----------------------------------------------------------------------------
(* build_certificate_chain on its own, for any list of blobs.              *)

\* a self-signed root certificate
RootDer ==
    [ ok |-> TRUE, subject |-> "CN=Example Root", issuer |-> "CN=Example Root",
      not_before |-> -72000, not_after |-> 72000,
      signature_oid |-> "1.2.840.113549.1.1.11",
      public_key |-> [type |-> "RSA", bits |-> 2048] ]

\* the blobs a chain may hold: a leaf in date, an expired leaf, an intermediate, a
\* root, and a blob that does not parse
ChainDers ==
    {d \in LeafDers : /\ d.public_key = [type |-> "RSA", bits |-> 3072]
                      /\ d.signature_oid = "1.2.840.113549.1.1.11"
                      /\ d.not_after \in {-48, 7200}}
    \cup {IssuerDer, RootDer, BadDer}

BuildChainOfDers ==
    /\ pc = "start"
    /\ \E ders \in SeqsUpTo(ChainDers, MaxCerts) :
          /\ cert_chain_ders' = ders
          /\ certificate_chain' = Some(build_certificate_chain(ders, now))
    /\ pc' = "chain_built"
    /\ UNCHANGED <<now, cert, cipher_suites, analysis, ssl_versions, cve_vulnerabilities,
                   ssl_labs_rating>>
    /\ UNCHANGED <<viewerVars, rawVars>>
    /\ UNCHANGED probeVars

NextChainBuilder == BuildChainOfDers

SpecChainBuilder == Init /\ [][NextChainBuilder]_vars

-----------------------------------------------------------------------------
(* A whole scan: check_ssl_info from its call to its return, one step per  *)
(* call it awaits.  A call that waits on the host without a timeout has a  *)
(* position of its own ("read_line", "tls_handshake") that the scan leaves *)
(* only when the host answers.                                             *)

recordVars == <<cert, cipher_suites, analysis, certificate_chain, ssl_versions,
                cve_vulnerabilities, ssl_labs_rating, cert_chain_ders>>

auxVars == <<server_cipher_order, http2_support, spdy_support, http3_support,
             alpn_protocols>>

MSG_EMPTY_DOMAIN == "domain must not be empty"

\* a protocol-version loop that walks TLS_VERSIONS from its last entry
probed_version_reversed(n) == TLS_VERSIONS[Len(TLS_VERSIONS) - n]

\* `for version in TLS_VERSIONS`: the version probed after n versions have been
probed_version(n) == TLS_VERSIONS[n + 1]

\* the versions of the entries marked supported, or the default when there is no list
extract_supported_versions(support) ==
    IF IsSome(support)
    THEN LET kept == SelectSeq(Unwrap(support), LAMBDA e : e.supported)
         IN  [i \in DOMAIN kept |-> kept[i].version]
    ELSE <<"TLS 1.2", "TLS 1.3">>

\* a record that keeps the cipher suites of the connection when the leaf does not parse
SslInfoKeepingCipherSuites ==
    [ domain |-> domain,
      server_ip |-> server_ip,
      server_info |-> server_info,
      certificate |-> cert,
      certificate_chain |-> certificate_chain,
      ssl_versions |-> IF IsSome(cert) THEN Some(ssl_versions) ELSE None,
      cipher_suites |-> IF cert_chain_ders # <<>> THEN Some(cipher_suites) ELSE None,
      protocol_support |-> protocol_support,
      server_cipher_order |-> server_cipher_order,
      security_score |-> IF IsSome(analysis) THEN Some(Unwrap(analysis).score) ELSE None,
      ssl_labs_rating |-> ssl_labs_rating,
      vulnerabilities |->
          IF IsSome(analysis) THEN Some(Unwrap(analysis).vulnerabilities) ELSE None,
      recommendations |->
          IF IsSome(analysis) THEN Some(Unwrap(analysis).recommendations) ELSE None,
      cve_vulnerabilities |-> IF IsSome(cert) THEN Some(cve_vulnerabilities) ELSE None,
      http2_support |-> http2_support,
      spdy_support |-> spdy_support,
      http3_support |-> http3_support,
      alpn_protocols |-> alpn_protocols ]

\* the record check_ssl_info returns
SslInfo ==
    [ domain |-> domain,
      server_ip |-> server_ip,
      server_info |-> server_info,
      certificate |-> cert,
      certificate_chain |-> certificate_chain,
      ssl_versions |-> IF IsSome(cert) THEN Some(ssl_versions) ELSE None,
      cipher_suites |-> IF IsSome(cert) THEN Some(cipher_suites) ELSE None,
      protocol_support |-> protocol_support,
      server_cipher_order |-> server_cipher_order,
      security_score |-> IF IsSome(analysis) THEN Some(Unwrap(analysis).score) ELSE None,
      ssl_labs_rating |-> ssl_labs_rating,
      vulnerabilities |->
          IF IsSome(analysis) THEN Some(Unwrap(analysis).vulnerabilities) ELSE None,
      recommendations |->
          IF IsSome(analysis) THEN Some(Unwrap(analysis).recommendations) ELSE None,
      cve_vulnerabilities |-> IF IsSome(cert) THEN Some(cve_vulnerabilities) ELSE None,
      http2_support |-> http2_support,
      spdy_support |-> spdy_support,
      http3_support |-> http3_support,
      alpn_protocols |-> alpn_protocols ]

\* the call: the domain is normalised and an empty one is rejected
CheckSslInfo ==
    /\ spc = "start"
    /\ \E d \in RawDomains :
          LET dom == to_lowercase(trim(d))
          IN  /\ input' = d
              /\ domain' = dom
              /\ IF dom = ""
                 THEN /\ server' = NoServer
                      /\ result' = Some([ok |-> FALSE, error |-> MSG_EMPTY_DOMAIN])
                      /\ spc' = "returned"
                 ELSE /\ \E srv \in Servers(dom) : server' = srv
                      /\ result' = None
                      /\ spc' = "resolve_domain_ip"
    /\ UNCHANGED <<pc, now, net_log, results, protocol_support, server_ip, server_info>>
    /\ UNCHANGED <<recordVars, auxVars, viewerVars, rawVars>>

ResolveDomainIp ==
    /\ spc = "resolve_domain_ip"
    /\ net_log' = Append(net_log, NetOp("resolve_domain_ip", domain))
    /\ server_ip' = IF server.dns THEN Some("192.0.2.10") ELSE None
    /\ spc' = "get_https_server_info"
    /\ UNCHANGED <<pc, now, input, domain, server, results, protocol_support, server_info,
                   result>>
    /\ UNCHANGED <<recordVars, auxVars, viewerVars, rawVars>>

GetHttpsServerInfo ==
    /\ spc = "get_https_server_info"
    /\ net_log' = Append(net_log, NetOp("get_https_server_info", "443"))
    /\ server_info' = get_https_server_info(server)
    /\ spc' = IF IsSome(get_https_server_info(server))
              THEN "check_tls_connection" ELSE "get_server_info_443"
    /\ UNCHANGED <<pc, now, input, domain, server, results, protocol_support, server_ip,
                   result>>
    /\ UNCHANGED <<recordVars, auxVars, viewerVars, rawVars>>

\* get_server_info(domain, 443): connects when the domain is an IP literal, and
\* returns None in every case
GetServerInfo443 ==
    /\ spc = "get_server_info_443"
    /\ net_log' = IF parses_as_socket_addr(domain)
                  THEN Append(net_log, NetOp("get_server_info", "443")) ELSE net_log
    /\ spc' = "get_server_info_80"
    /\ UNCHANGED <<pc, now, input, domain, server, results, protocol_support, server_ip,
                   server_info, result>>
    /\ UNCHANGED <<recordVars, auxVars, viewerVars, rawVars>>

\* get_server_info(domain, 80): after the connection and the request, read_line waits
\* for the response headers with no read timeout
GetServerInfo80 ==
    /\ spc = "get_server_info_80"
    /\ IF ~parses_as_socket_addr(domain)
       THEN /\ net_log' = net_log
            /\ server_info' = None
            /\ spc' = "check_tls_connection"
       ELSE /\ net_log' = Append(net_log, NetOp("get_server_info", "80"))
            /\ server_info' = IF server.port80 = "http" THEN Some("Apache") ELSE None
            /\ spc' = IF server.port80 = "silent" THEN "read_line"
                      ELSE "check_tls_connection"
    /\ UNCHANGED <<pc, now, input, domain, server, results, protocol_support, server_ip,
                   result>>
    /\ UNCHANGED <<recordVars, auxVars, viewerVars, rawVars>>

\* check_tls_connection: the TCP connection and the handshake carry no timeout
CheckTlsConnection ==
    /\ spc = "check_tls_connection"
    /\ IF ~valid_server_name(domain)
       THEN /\ net_log' = net_log
            /\ spc' = "return"
            /\ UNCHANGED <<cert_chain_ders, cipher_suites>>
       ELSE /\ net_log' = Append(net_log, NetOp("check_tls_connection", "443"))
            /\ CASE server.port443 = "refused" ->
                        /\ spc' = "return"
                        /\ UNCHANGED <<cert_chain_ders, cipher_suites>>
                 [] server.port443 = "silent" ->
                        /\ spc' = "tls_handshake"
                        /\ UNCHANGED <<cert_chain_ders, cipher_suites>>
                 [] OTHER ->
                        /\ spc' = "parse_certificate"
                        /\ cert_chain_ders' = <<server.leaf, IssuerDer>>
                        /\ cipher_suites' = connection_cipher_suites(server.negotiated)
    /\ UNCHANGED <<pc, now, input, domain, server, results, protocol_support, server_ip,
                   server_info, result>>
    /\ UNCHANGED <<cert, analysis, certificate_chain, ssl_versions, cve_vulnerabilities,
                   ssl_labs_rating>>
    /\ UNCHANGED <<auxVars, viewerVars, rawVars>>

\* the leaf is parsed; on success it is analysed and the chain is built, on failure
\* every field that comes after it is None
ScanCertificate ==
    /\ spc = "parse_certificate"
    /\ LET parsed == parse_certificate(cert_chain_ders[1])
           chain  == build_certificate_chain(cert_chain_ders, now)
       IN  IF IsSome(parsed)
           THEN /\ cert' = parsed
                /\ analysis' = Some(analyze_security(Unwrap(parsed), cipher_suites, now))
                /\ certificate_chain' = IF chain.outcome = "ok" THEN Some(chain) ELSE None
                /\ spc' = IF chain.outcome = "panic" THEN "panicked"
                          ELSE "check_protocol_support"
           ELSE /\ spc' = "return"
                /\ UNCHANGED <<cert, analysis, certificate_chain>>
    /\ UNCHANGED <<pc, now, input, domain, server, net_log, results, protocol_support,
                   server_ip, server_info, result>>
    /\ UNCHANGED <<cipher_suites, ssl_versions, cve_vulnerabilities, ssl_labs_rating,
                   cert_chain_ders>>
    /\ UNCHANGED <<auxVars, viewerVars, rawVars>>

\* one iteration of check_protocol_support's loop
CheckProtocolSupport ==
    /\ spc = "check_protocol_support"
    /\ Len(results) < Len(TLS_VERSIONS)
    /\ LET version == probed_version(Len(results))
           entry   == ProtocolSupport(server, version)
       IN  /\ results' = Append(results, entry)
           /\ net_log' = net_log \o version_probe_ops(version)
                             \o (IF entry.supported THEN supported_version_ops ELSE <<>>)
           /\ IF Len(results) + 1 = Len(TLS_VERSIONS)
              THEN /\ protocol_support' = Some(Append(results, entry))
                   /\ spc' = "check_server_cipher_order"
              ELSE UNCHANGED <<protocol_support, spc>>
    /\ UNCHANGED <<pc, now, input, domain, server, server_ip, server_info, result>>
    /\ UNCHANGED <<recordVars, auxVars, viewerVars, rawVars>>

CheckServerCipherOrder ==
    /\ spc = "check_server_cipher_order"
    /\ server_cipher_order' = Some(FALSE)
    /\ spc' = "check_http2_support"
    /\ UNCHANGED <<pc, now, input, domain, server, net_log, results, protocol_support,
                   server_ip, server_info, result>>
    /\ UNCHANGED <<http2_support, spdy_support, http3_support, alpn_protocols>>
    /\ UNCHANGED <<recordVars, viewerVars, rawVars>>

CheckHttp2Support ==
    /\ spc = "check_http2_support"
    /\ net_log' = Append(net_log, NetOp("check_http2_support", "443"))
    /\ http2_support' = Some(check_http2_support(server))
    /\ spc' = "check_spdy_support"
    /\ UNCHANGED <<pc, now, input, domain, server, results, protocol_support, server_ip,
                   server_info, result>>
    /\ UNCHANGED <<server_cipher_order, spdy_support, http3_support, alpn_protocols>>
    /\ UNCHANGED <<recordVars, viewerVars, rawVars>>

CheckSpdySupport ==
    /\ spc = "check_spdy_support"
    /\ net_log' = Append(net_log, NetOp("check_spdy_support", "443"))
    /\ spdy_support' = Some(check_spdy_support(server))
    /\ spc' = "check_http3_support"
    /\ UNCHANGED <<pc, now, input, domain, server, results, protocol_support, server_ip,
                   server_info, result>>
    /\ UNCHANGED <<server_cipher_order, http2_support, http3_support, alpn_protocols>>
    /\ UNCHANGED <<recordVars, viewerVars, rawVars>>

CheckHttp3Support ==
    /\ spc = "check_http3_support"
    /\ net_log' = Append(net_log, NetOp("check_http3_support", "443"))
    /\ http3_support' = Some(check_http3_support(server))
    /\ spc' = "check_alpn_support"
    /\ UNCHANGED <<pc, now, input, domain, server, results, protocol_support, server_ip,
                   server_info, result>>
    /\ UNCHANGED <<server_cipher_order, http2_support, spdy_support, alpn_protocols>>
    /\ UNCHANGED <<recordVars, viewerVars, rawVars>>

CheckAlpnSupport ==
    /\ spc = "check_alpn_support"
    /\ net_log' = Append(net_log, NetOp("check_alpn_support", "443"))
    /\ alpn_protocols' = Some(check_alpn_support(server))
    /\ spc' = "detect_cve_vulnerabilities"
    /\ UNCHANGED <<pc, now, input, domain, server, results, protocol_support, server_ip,
                   server_info, result>>
    /\ UNCHANGED <<server_cipher_order, http2_support, spdy_support, http3_support>>
    /\ UNCHANGED <<recordVars, viewerVars, rawVars>>

\* the supported versions are read off protocol_support, then the rule engine and the
\* scorer run
DetectAndRate ==
    /\ spc = "detect_cve_vulnerabilities"
    /\ LET versions == extract_supported_versions(protocol_support)
           vulns    == detect_cve_vulnerabilities(Unwrap(cert), versions, cipher_suites)
       IN  /\ ssl_versions' = versions
           /\ cve_vulnerabilities' = vulns
           /\ ssl_labs_rating' =
                  Some(calculate_ssl_labs_rating(Unwrap(cert), versions, cipher_suites,
                                                 vulns, now))
    /\ spc' = "return"
    /\ UNCHANGED <<pc, now, input, domain, server, net_log, results, protocol_support,
                   server_ip, server_info, result>>
    /\ UNCHANGED <<cert, cipher_suites, analysis, certificate_chain, cert_chain_ders>>
    /\ UNCHANGED <<auxVars, viewerVars, rawVars>>

ReturnSslInfo ==
    /\ spc = "return"
    /\ result' = Some([ok |-> TRUE, info |-> SslInfo])
    /\ spc' = "returned"
    /\ UNCHANGED <<pc, now, input, domain, server, net_log, results, protocol_support,
                   server_ip, server_info>>
    /\ UNCHANGED <<recordVars, auxVars, viewerVars, rawVars>>

NextScan ==
    \/ CheckSslInfo
    \/ ResolveDomainIp
    \/ GetHttpsServerInfo
    \/ GetServerInfo443
    \/ GetServerInfo80
    \/ CheckTlsConnection
    \/ ScanCertificate
    \/ CheckProtocolSupport
    \/ CheckServerCipherOrder
    \/ CheckHttp2Support
    \/ CheckSpdySupport
    \/ CheckHttp3Support
    \/ CheckAlpnSupport
    \/ DetectAndRate
    \/ ReturnSslInfo

SpecScan == Init /\ [][NextScan]_vars

\* every call that has been awaited and can complete does complete: the async runtime
\* keeps polling the one task of the scan
SpecScanLive == Init /\ [][NextScan]_vars /\ WF_vars(NextScan)

-----------------------------------------------------------------------------
(* The raw-socket probe for TLS 1.0 and TLS 1.1:                           *)
(* check_tls_version_with_raw_socket, create_client_hello and              *)
(* create_sni_extension.  A byte is a number in 0..255, a Vec<u8> a        *)
(* sequence of bytes.  Positions in the prose are the 0-based indices of   *)
(* the code; sequence element i + 1 is the byte at index i.                *)

MaxNameLen == 3

\* the size of the read buffer, [0u8; 1024]
BUFFER_LEN == 1024

\* the characters server names are drawn from, with their UTF-8 codes
NameChars == {"a", "."}

AsciiCode(c) == IF c = "a" THEN 97 ELSE 46

RECURSIVE NamesUpTo(_)
NamesUpTo(n) ==
    IF n = 0 THEN {""}
    ELSE LET shorter == NamesUpTo(n - 1)
         IN  shorter \cup {x \o c : x \in {y \in shorter : Len(y) = n - 1}, c \in NameChars}

\* the names a probe is made for: every name of up to MaxNameLen characters
ProbeNames == NamesUpTo(MaxNameLen)

\* str::as_bytes
as_bytes(s) == [i \in 1..Len(s) |-> AsciiCode(SubSeq(s, i, i))]

\* (n as u16).to_be_bytes()
u16_to_be_bytes(n) == <<(n % 65536) \div 256, n % 256>>

\* (n as u32).to_be_bytes()
u32_to_be_bytes(n) ==
    <<(n \div 16777216) % 256, (n \div 65536) % 256, (n \div 256) % 256, n % 256>>

\* a server-name list whose length field leaves out the name-type byte
sni_extension_short_list(name) ==
       u16_to_be_bytes(Len(name) + 2)
    \o <<0>>
    \o u16_to_be_bytes(Len(name))
    \o as_bytes(name)

create_sni_extension(name) ==
       u16_to_be_bytes(Len(name) + 3)
    \o <<0>>
    \o u16_to_be_bytes(Len(name))
    \o as_bytes(name)

\* the cipher suites offered for a version
hello_cipher_suites(major_version, minor_version) ==
    CASE major_version = 3 /\ minor_version = 1 -> <<0, 47>>
      [] major_version = 3 /\ minor_version = 2 -> <<0, 53>>
      [] OTHER -> <<0, 47, 0, 53>>

\* the extensions vector: the SNI extension, for a non-empty name
hello_extensions(name) ==
    IF name = "" THEN <<>>
    ELSE LET sni_data == create_sni_extension(name)
         IN  <<0, 0>> \o u16_to_be_bytes(Len(sni_data)) \o sni_data

\* the two positions the length placeholders are at
length_pos == 3

handshake_length_pos == 6

create_client_hello(name, major_version, minor_version) ==
    LET suites     == hello_cipher_suites(major_version, minor_version)
        extensions == hello_extensions(name)
        hello ==    <<22, major_version, minor_version>>
                 \o <<0, 0>>
                 \o <<1>>
                 \o <<0, 0, 0>>
                 \o <<major_version, minor_version>>
                 \o [i \in 1..32 |-> 1]
                 \o <<0>>
                 \o <<0, Len(suites) % 256>>
                 \o suites
                 \o <<1, 0>>
                 \o (IF extensions # <<>>
                     THEN u16_to_be_bytes(Len(extensions)) \o extensions
                     ELSE <<>>)
        handshake_length_bytes == u32_to_be_bytes(Len(hello) - handshake_length_pos - 3)
        record_length_bytes    == u16_to_be_bytes(Len(hello) - length_pos - 2)
    IN  [hello EXCEPT ![handshake_length_pos + 1] = handshake_length_bytes[2],
                      ![handshake_length_pos + 2] = handshake_length_bytes[3],
                      ![handshake_length_pos + 3] = handshake_length_bytes[4],
                      ![length_pos + 1] = record_length_bytes[1],
                      ![length_pos + 2] = record_length_bytes[2]]

\* the version bytes of a protocol name; None for a name the probe does not know
version_bytes(protocol_name) ==
    CASE protocol_name = "TLS 1.0" -> Some(<<3, 1>>)
      [] protocol_name = "TLS 1.1" -> Some(<<3, 2>>)
      [] protocol_name = "TLS 1.2" -> Some(<<3, 3>>)
      [] protocol_name = "TLS 1.3" -> Some(<<3, 4>>)
      [] OTHER -> None

\* the read buffer after a read that returned the given bytes: zeroes after them
read_buffer(bytes) ==
    [i \in 0..(BUFFER_LEN - 1) |-> IF i < Len(bytes) THEN bytes[i + 1] ELSE 0]

\* a server counted as supporting a version whenever it answers with any 3.x version
supports_any_minor(server_major, server_minor, major_version, minor_version) ==
    server_major >= major_version

supports_version(server_major, server_minor, major_version, minor_version) ==
    \/ server_major = major_version /\ server_minor >= minor_version
    \/ server_major > major_version

\* the match on the outcome of the read, within its 5 s timeout
read_server_response(resp, major_version, minor_version) ==
    IF resp.outcome = "read" /\ Len(resp.bytes) > 0
    THEN LET buffer == read_buffer(resp.bytes)
         IN  IF buffer[0] = 22 /\ buffer[5] = 2
             THEN supports_version(buffer[9], buffer[10], major_version, minor_version)
             ELSE FALSE
    ELSE FALSE

\* a reply of the server: the first n bytes of a TLS record whose type, handshake
\* type and version bytes are as given
ServerRecord(type, handshake_type, server_major, server_minor) ==
    <<type, 3, 1, 0, 7, handshake_type, 0, 0, 3, server_major, server_minor, 0>>

ReplyBytes ==
    { SubSeq(ServerRecord(type, handshake_type, server_major, server_minor), 1, n) :
        type \in {21, 22, 23}, handshake_type \in {1, 2},
        server_major \in {2, 3, 4}, server_minor \in {0, 1, 2, 3},
        n \in {0, 1, 6, 10, 11, 12} }

\* what the read returns: bytes (none of them at end of stream), an error, or nothing
\* within the timeout
Responses ==
       { [outcome |-> "read", bytes |-> b] : b \in ReplyBytes }
    \cup { [outcome |-> "error", bytes |-> <<>>], [outcome |-> "timeout", bytes |-> <<>>] }

\* the call, and the TCP connection within its 5 s timeout
RawSocketConnect ==
    /\ rpc = "start"
    /\ \E name \in ProbeNames, protocol_name \in {"SSL 3.0", "TLS 1.0", "TLS 1.1"},
          connected \in {"ok", "refused", "timeout"} :
          /\ probe_domain' = name
          /\ probe_protocol' = protocol_name
          /\ IF ~IsSome(version_bytes(protocol_name)) \/ connected # "ok"
             THEN raw_result' = Some(FALSE) /\ rpc' = "done"
             ELSE raw_result' = None /\ rpc' = "connected"
    /\ UNCHANGED <<client_hello, response>>
    /\ UNCHANGED <<scanVars, viewerVars, probeVars>>

\* create_client_hello and write_all
SendClientHello ==
    /\ rpc = "connected"
    /\ LET version == Unwrap(version_bytes(probe_protocol))
       IN  client_hello' = create_client_hello(probe_domain, version[1], version[2])
    /\ \E written \in BOOLEAN :
          IF written
          THEN raw_result' = None /\ rpc' = "sent"
          ELSE raw_result' = Some(FALSE) /\ rpc' = "done"
    /\ UNCHANGED <<probe_domain, probe_protocol, response>>
    /\ UNCHANGED <<scanVars, viewerVars, probeVars>>

\* the read of the reply and its classification
ReadServerResponse ==
    /\ rpc = "sent"
    /\ \E resp \in Responses :
          /\ response' = resp
          /\ LET version == Unwrap(version_bytes(probe_protocol))
             IN  raw_result' = Some(read_server_response(resp, version[1], version[2]))
    /\ rpc' = "done"
    /\ UNCHANGED <<probe_domain, probe_protocol, client_hello>>
    /\ UNCHANGED <<scanVars, viewerVars, probeVars>>

NextRawSocket ==
    \/ RawSocketConnect
    \/ SendClientHello
    \/ ReadServerResponse

SpecRawSocket == Init /\ [][NextRawSocket]_vars

-----------------------------------------------------------------------------
(* Properties of the rule engine and the scorer.                           *)

\* a rating has been computed
Rated == IsSome(ssl_labs_rating)

Rating == Unwrap(ssl_labs_rating)

Leaf == Unwrap(cert)

\* the leaf is an RSA certificate with a recorded key size below 2048 bits
RsaBelow2048 ==
    /\ Leaf.public_key_algorithm = "RSA"
    /\ IsSome(Leaf.key_size)
    /\ Unwrap(Leaf.key_size) < 2048

\* the grade the score alone stands for
GradeOfScore(score) ==
    IF score >= 95 THEN "A+"
    ELSE IF score >= 90 THEN "A"
    ELSE IF score >= 80 THEN "A-"
    ELSE IF score >= 70 THEN "B"
    ELSE IF score >= 60 THEN "C"
    ELSE IF score >= 50 THEN "D"
    ELSE "F"

\* C1 as stated: whenever SSL 2.0 is among the supported versions the grade is F and
\* both the DROWN finding and the DEPRECATED-SSL2 finding are affected.
C1_AsStated ==
    (Rated /\ Has(ssl_versions, "SSL 2.0")) =>
        /\ Rating.grade = "F"
        /\ Affected(cve_vulnerabilities, "CVE-2016-0800")
        /\ Affected(cve_vulnerabilities, "DEPRECATED-SSL2")

\* C1: whenever SSL 2.0 is among the supported versions the grade is F and the DROWN
\* finding (CVE-2016-0800) is affected; the DEPRECATED-SSL2 finding is not emitted,
\* because the DROWN rule has fired for the same protocol.
C1_Sslv2ForcesFAndDrown ==
    (Rated /\ Has(ssl_versions, "SSL 2.0")) =>
        /\ Rating.grade = "F"
        /\ Affected(cve_vulnerabilities, "CVE-2016-0800")
        /\ ~Emitted(cve_vulnerabilities, "DEPRECATED-SSL2")

C1_Witness ==
    /\ Rated
    /\ ssl_versions = <<"SSL 2.0", "TLS 1.2", "TLS 1.3">>
    /\ Rating.grade = "F"
    /\ Affected(cve_vulnerabilities, "CVE-2016-0800")
    /\ ~Emitted(cve_vulnerabilities, "DEPRECATED-SSL2")

\* C2: an RSA certificate with a recorded key size below 2048 bits scores at most 70
\* and the WEAK-KEY-SIZE finding is emitted as affected.
C2_ShortRsaKey ==
    (Rated /\ RsaBelow2048) =>
        /\ Rating.certificate_score <= 70
        /\ calculate_certificate_score(Leaf, now) <= 70
        /\ Affected(cve_vulnerabilities, "WEAK-KEY-SIZE")

C2_Witness ==
    /\ Rated
    /\ Leaf.public_key_algorithm = "RSA"
    /\ Leaf.key_size = Some(1024)
    /\ Leaf.signature_algorithm = "SHA256withRSA"
    /\ Rating.certificate_score = 70
    /\ Affected(cve_vulnerabilities, "WEAK-KEY-SIZE")

\* the facts of C4: versions exactly TLS 1.2 and TLS 1.3, a non-empty cipher list with
\* no WEAK suite, an RSA key of at least 3072 bits, a SHA-256 signature and 300 days left
C4_Facts ==
    /\ ssl_versions = <<"TLS 1.2", "TLS 1.3">>
    /\ Len(cipher_suites) > 0
    /\ \A i \in DOMAIN cipher_suites : cipher_suites[i].strength # "WEAK"
    /\ Leaf.public_key_algorithm = "RSA"
    /\ IsSome(Leaf.key_size)
    /\ Unwrap(Leaf.key_size) >= 3072
    /\ contains(to_lowercase(Leaf.signature_algorithm), "sha256")
    /\ days_until_expiry(Leaf, now) = 300

\* C4 as stated: under the facts of C4 the rating has no errors and the grade is A or A+.
C4_AsStated ==
    (Rated /\ C4_Facts) =>
        /\ ~Rating.has_errors
        /\ Rating.grade \in {"A", "A+"}

\* C4: under the facts of C4, if moreover some suite of the list offers forward secrecy
\* (its name contains DHE, as every ECDHE name does) and the rule engine reports no
\* affected finding, the rating has no errors and the grade is A or A+.
C4_GoodConfigurationGrade ==
    (/\ Rated
     /\ C4_Facts
     /\ \E i \in DOMAIN cipher_suites : name_contains(cipher_suites[i].name, "DHE")
     /\ \A i \in DOMAIN cve_vulnerabilities : ~cve_vulnerabilities[i].affected) =>
        /\ ~Rating.has_errors
        /\ Rating.grade \in {"A", "A+"}

C4_Witness ==
    /\ Rated
    /\ C4_Facts
    /\ Len(cipher_suites) = 2
    /\ cipher_suites[1].name = "TLS_RSA_WITH_AES_128_GCM_SHA256"
    /\ cipher_suites[2].name = "TLS_ECDHE_RSA_WITH_AES_128_CBC_SHA"
    /\ \A i \in DOMAIN cve_vulnerabilities : ~cve_vulnerabilities[i].affected
    /\ Rating.key_exchange_score = 85
    /\ Rating.score = 95
    /\ ~Rating.has_errors
    /\ Rating.grade = "A+"

\* C5: when SSL 2.0 is not supported, the certificate is not expired and has_errors is
\* false, the grade is the one the score alone stands for, whatever has_warnings is.
C5_GradeByScoreAlone ==
    (/\ Rated
     /\ ~Has(ssl_versions, "SSL 2.0")
     /\ ~(Leaf.valid_to < now)
     /\ ~Rating.has_errors) =>
        Rating.grade = GradeOfScore(Rating.score)

\* a rating of score 94 without errors that is graded F because has_warnings is set
C5_Divergence ==
    /\ Rated
    /\ ssl_versions = <<"TLS 1.2", "TLS 1.3">>
    /\ Len(cipher_suites) = 1
    /\ cipher_suites[1].name = "TLS_ECDHE_RSA_WITH_NULL_SHA"
    /\ Leaf.key_size = Some(3072)
    /\ Leaf.signature_algorithm = "SHA256withRSA"
    /\ Leaf.valid_to - now = 7200
    /\ \A i \in DOMAIN cve_vulnerabilities : ~cve_vulnerabilities[i].affected
    /\ ~Rating.has_errors
    /\ Rating.has_warnings
    /\ Rating.score = 94
    /\ Rating.grade = "F"

\* C6: a certificate whose not-after time is earlier than now, by any amount, scores 0
\* and the grade is F.
C6_ExpiredScoresZero ==
    (Rated /\ Leaf.valid_to < now) =>
        /\ Rating.certificate_score = 0
        /\ Rating.grade = "F"

\* a certificate that expired twelve hours ago, scored 50 and graded A-, while the
\* chain node of the same certificate says it has expired
C6_Divergence ==
    /\ Rated
    /\ Leaf.valid_to - now = -12
    /\ Leaf.key_size = Some(3072)
    /\ Leaf.signature_algorithm = "SHA256withRSA"
    /\ ssl_versions = <<"TLS 1.2", "TLS 1.3">>
    /\ Len(cipher_suites) = 1
    /\ cipher_suites[1].name = "TLS_ECDHE_RSA_WITH_AES_256_GCM_SHA384"
    /\ Rating.certificate_score = 50
    /\ Rating.grade = "A-"
    /\ Has(Unwrap(certificate_chain).certificates[1].validation_errors, MSG_EXPIRED)

\* C7: a supported-version list that contains SSL 2.0 has protocol score 0.
C7_Sslv2ProtocolScoreZero ==
    (Rated /\ Has(ssl_versions, "SSL 2.0")) => Rating.protocol_score = 0

\* SSL 2.0 together with TLS 1.3: the protocol score is 5
C7_Divergence ==
    /\ Rated
    /\ ssl_versions = <<"SSL 2.0", "TLS 1.3">>
    /\ Rating.protocol_score = 5

\* the leaf expires in the future but in fewer than 7 days
ExpiresWithinAWeek == Leaf.valid_to > now /\ Leaf.valid_to - now < 7 * 24

\* the chain node built for the leaf
LeafNode == Unwrap(certificate_chain).certificates[1]

\* C8 as stated: the chain node of a leaf that expires within 7 days carries a
\* validation_errors entry about the coming expiry, and the certificate score is at most 50.
C8_AsStated ==
    (Rated /\ ExpiresWithinAWeek) =>
        /\ \/ Has(LeafNode.validation_errors, MSG_EXPIRES_IN_A_WEEK)
           \/ Has(LeafNode.validation_errors, MSG_EXPIRES_IN_30_DAYS)
        /\ Rating.certificate_score <= 50

\* C8: for a leaf that expires within 7 days the certificate score is at most 50 and
\* the expires-within-a-week warning is in the vulnerability list of analyze_security;
\* the validation_errors of its chain node carry no entry about the coming expiry.
C8_ExpiringSoon ==
    (Rated /\ ExpiresWithinAWeek) =>
        /\ Rating.certificate_score <= 50
        /\ Has(Unwrap(analysis).vulnerabilities, MSG_EXPIRES_IN_A_WEEK)
        /\ ~Has(LeafNode.validation_errors, MSG_EXPIRES_IN_A_WEEK)
        /\ ~Has(LeafNode.validation_errors, MSG_EXPIRES_IN_30_DAYS)
        /\ ~Has(LeafNode.validation_errors, MSG_EXPIRED)

C8_Witness ==
    /\ Rated
    /\ Leaf.valid_to - now = 72
    /\ Leaf.key_size = Some(3072)
    /\ Leaf.signature_algorithm = "SHA256withRSA"
    /\ Rating.certificate_score = 50
    /\ LeafNode.validation_errors = <<>>
    /\ Has(Unwrap(analysis).vulnerabilities, MSG_EXPIRES_IN_A_WEEK)

\* C10: every observed suite whose name contains RC4 is classified WEAK, and when such
\* a suite is in the list the RC4 NOMORE finding (CVE-2013-2566) is affected.
C10_Rc4WeakAndReported ==
    Rated =>
        \A i \in DOMAIN cipher_suites :
            contains(cipher_suites[i].name, "RC4") =>
                /\ cipher_suites[i].strength = "WEAK"
                /\ classify_cipher_suite_strength(cipher_suites[i].name) = "WEAK"
                /\ Affected(cve_vulnerabilities, "CVE-2013-2566")

C10_Witness ==
    /\ Rated
    /\ Len(cipher_suites) = 2
    /\ cipher_suites[1].name = "TLS_RSA_WITH_RC4_128_SHA"
    /\ cipher_suites[1].strength = "WEAK"
    /\ cipher_suites[2].name = "TLS_AES_256_GCM_SHA384"
    /\ Affected(cve_vulnerabilities, "CVE-2013-2566")

\* the rule engine has run
Detected == cve_vulnerabilities # <<>>

\* the spellings of the cipher families, with and without separators, in lower case
Spellings ==
    { "aes256", "aes_256", "aes128", "aes_128", "camellia128", "camellia_128",
      "3des", "chacha20", "poly1305", "gcm" }

SpellingHas == [n \in CipherNames |-> {p \in Spellings : contains(to_lowercase(n), p)}]

\* the name carries one of the WEAK markers
WeakMarked(n) ==
    \/ lower_contains(n, "null")
    \/ lower_contains(n, "anon")
    \/ lower_contains(n, "export")
    \/ (lower_contains(n, "des") /\ ~lower_contains(n, "3des"))
    \/ lower_contains(n, "rc4")
    \/ lower_contains(n, "md5")

\* the name denotes AES-256, ChaCha20, Poly1305 or a GCM suite, in either spelling
DenotesHigh(n) == SpellingHas[n] \cap {"aes256", "aes_256", "chacha20", "poly1305", "gcm"} # {}

\* C16: every observed suite without a WEAK marker is HIGH when its name denotes
\* AES-256, ChaCha20, Poly1305 or GCM (AES-128-GCM included) and MEDIUM otherwise,
\* in the separator-less spelling (AES128-GCM, AES256) and in the underscore one.
C16_StrengthByFamily ==
    \A i \in DOMAIN cipher_suites :
        ~WeakMarked(cipher_suites[i].name) =>
            /\ cipher_suites[i].strength = classify_cipher_suite_strength(cipher_suites[i].name)
            /\ cipher_suites[i].strength =
                   (IF DenotesHigh(cipher_suites[i].name) THEN "HIGH" ELSE "MEDIUM")

\* the list of a connection: AES-128-GCM is HIGH in one spelling and MEDIUM in the other
C16_Divergence ==
    /\ Len(cipher_suites) = 7
    /\ cipher_suites[4].name = "TLS_AES_128_GCM_SHA256"
    /\ cipher_suites[4].strength = "HIGH"
    /\ cipher_suites[6].name = "ECDHE-RSA-AES128-GCM-SHA256"
    /\ cipher_suites[6].strength = "MEDIUM"
    /\ ~WeakMarked(cipher_suites[6].name)

\* C17: the Logjam finding (CVE-2015-4000) is affected exactly when some suite name
\* contains both EXPORT and DHE.
C17_LogjamNeedsDheExport ==
    Detected =>
        (Affected(cve_vulnerabilities, "CVE-2015-4000") <=>
            \E i \in DOMAIN cipher_suites :
                /\ upper_contains(cipher_suites[i].name, "EXPORT")
                /\ upper_contains(cipher_suites[i].name, "DHE"))

\* an RSA export suite alone: Logjam is reported although no name contains DHE
C17_Divergence ==
    /\ Detected
    /\ Len(cipher_suites) = 1
    /\ cipher_suites[1].name = "TLS_RSA_EXPORT_WITH_RC4_40_MD5"
    /\ ~contains(cipher_suites[1].name, "DHE")
    /\ Affected(cve_vulnerabilities, "CVE-2015-4000")

\* C18: DEPRECATED-SSL2 never appears together with DROWN, DEPRECATED-SSL3 never with
\* an SSL 3.0 POODLE, WEAK-TLS10 never with BEAST or a TLS 1.0 POODLE, and WEAK-TLS11
\* never with a Heartbleed finding that is affected while TLS 1.1 is supported.
C18_NoDuplicateReporting ==
    Detected =>
        /\ ~(/\ Emitted(cve_vulnerabilities, "DEPRECATED-SSL2")
             /\ Emitted(cve_vulnerabilities, "CVE-2016-0800"))
        /\ ~(/\ Emitted(cve_vulnerabilities, "DEPRECATED-SSL3")
             /\ Emitted(cve_vulnerabilities, "CVE-2014-3566")
             /\ Has(ssl_versions, "SSL 3.0"))
        /\ ~(/\ Emitted(cve_vulnerabilities, "WEAK-TLS10")
             /\ \/ Emitted(cve_vulnerabilities, "CVE-2011-3389")
                \/ /\ Emitted(cve_vulnerabilities, "CVE-2014-3566")
                   /\ poodle_tls_affected(ssl_versions, cipher_suites))
        /\ ~(/\ Emitted(cve_vulnerabilities, "WEAK-TLS11")
             /\ Affected(cve_vulnerabilities, "CVE-2014-0160")
             /\ Has(ssl_versions, "TLS 1.1"))

\* TLS 1.1 and TLS 1.2 without TLS 1.3: Heartbleed is affected and WEAK-TLS11 is
\* emitted next to it
C18_Divergence ==
    /\ Detected
    /\ ssl_versions = <<"TLS 1.1", "TLS 1.2">>
    /\ Affected(cve_vulnerabilities, "CVE-2014-0160")
    /\ Affected(cve_vulnerabilities, "WEAK-TLS11")

\* C19: when TLS 1.1 or TLS 1.2 is supported and TLS 1.3 is not, the Heartbleed
\* finding is affected with severity CRITICAL, has_errors is true and the grade is F.
C19_HeartbleedForcesF ==
    (/\ Rated
     /\ Has(ssl_versions, "TLS 1.1") \/ Has(ssl_versions, "TLS 1.2")
     /\ ~Has(ssl_versions, "TLS 1.3")) =>
        /\ \E i \in DOMAIN cve_vulnerabilities :
               /\ cve_vulnerabilities[i].cve_id = "CVE-2014-0160"
               /\ cve_vulnerabilities[i].affected
               /\ cve_vulnerabilities[i].severity = "CRITICAL"
        /\ Rating.has_errors
        /\ Rating.grade = "F"

\* TLS 1.2 alone with a sound certificate and a strong forward-secret suite
C19_Witness ==
    /\ Rated
    /\ ssl_versions = <<"TLS 1.2">>
    /\ Leaf.key_size = Some(3072)
    /\ Leaf.signature_algorithm = "SHA256withRSA"
    /\ Leaf.valid_to - now = 7200
    /\ Len(cipher_suites) = 1
    /\ cipher_suites[1].name = "TLS_ECDHE_RSA_WITH_AES_256_GCM_SHA384"
    /\ Affected(cve_vulnerabilities, "CVE-2014-0160")
    /\ Rating.certificate_score = 100
    /\ Rating.score = 70
    /\ Rating.has_errors
    /\ Rating.grade = "F"

-----------------------------------------------------------------------------
(* Properties of a whole scan.                                             *)

\* check_ssl_info has returned
Returned == spc = "returned"

\* it returned a record
ReturnedInfo == Returned /\ Unwrap(result).ok

Info == Unwrap(result).info

\* the argument consists of white space only
AllWhitespace(s) == Chars(s) \subseteq WhiteSpace

VersionProbe == {"check_tls_version_support"}

FeatureProbes ==
    {"check_alpn_support", "check_http2_support", "check_spdy_support", "check_http3_support"}

BannerProbes == {"get_https_server_info", "get_server_info"}

\* the number of entries of the log for an operation
CountOf(op) == Cardinality({i \in DOMAIN net_log : net_log[i].op = op})

\* the position of a version name in TLS_VERSIONS
VersionIndex(name) == CHOOSE i \in DOMAIN TLS_VERSIONS : TLS_VERSIONS[i] = name

\* C11: check_ssl_info returns an error only for a domain that is empty after
\* trimming, and then no network operation has been started; for every other domain
\* what it returns is a record.
C11_ErrorOnlyForEmptyDomain ==
    /\ (IsSome(result) /\ ~Unwrap(result).ok) => (AllWhitespace(input) /\ net_log = <<>>)
    /\ (spc # "start" /\ AllWhitespace(input)) =>
           (net_log = <<>> /\ Returned /\ ~Unwrap(result).ok)
    /\ (Returned /\ ~AllWhitespace(input)) => Unwrap(result).ok

\* a domain of a space and a tab is rejected with nothing on the network
C11_Witness ==
    /\ Returned
    /\ input = " \t"
    /\ domain = ""
    /\ result = Some([ok |-> FALSE, error |-> MSG_EMPTY_DOMAIN])
    /\ net_log = <<>>

\* C12: when the leaf the server sent does not parse, the returned record lacks the
\* certificate but protocol_support and the HTTP/2, SPDY, HTTP/3 and ALPN fields are
\* filled from their own probes.
C12_ParseFailureKeepsProbes ==
    (/\ ReturnedInfo
     /\ cert_chain_ders # <<>>
     /\ ~IsSome(parse_certificate(cert_chain_ders[1]))) =>
        /\ ~IsSome(Info.certificate)
        /\ IsSome(Info.protocol_support)
        /\ IsSome(Info.http2_support)
        /\ IsSome(Info.spdy_support)
        /\ IsSome(Info.http3_support)
        /\ IsSome(Info.alpn_protocols)

\* a host that speaks TLS 1.2 and HTTP/2 but sends an unparsable leaf: the scan stops
\* after the certificate connection and every field is absent
C12_Divergence ==
    /\ ReturnedInfo
    /\ server.port443 = "tls"
    /\ server.http = "h2h3"
    /\ server.versions = {5}
    /\ cert_chain_ders[1] = BadDer
    /\ CountOf("check_tls_version_support") = 0
    /\ \A f \in FeatureProbes : CountOf(f) = 0
    /\ Info.protocol_support = None
    /\ Info.http2_support = None
    /\ Info.alpn_protocols = None

\* C13: every scan terminates: check_ssl_info eventually returns.
C13_ScanTerminates == <>Returned

\* the scan waits in the handshake of check_tls_connection on a host that accepted the
\* TCP connection and sends nothing
C13_Divergence ==
    /\ spc = "tls_handshake"
    /\ server.port443 = "silent"
    /\ net_log[Len(net_log)] = NetOp("check_tls_connection", "443")
    /\ result = None

C15_NoProbeRepeated ==
    \A i, j \in DOMAIN net_log :
        (/\ i < j
         /\ net_log[i].op \in VersionProbe \cup FeatureProbes) => net_log[i] # net_log[j]

\* a host that accepts TLS 1.2 and TLS 1.3 and whose HTTPS requests all fail: ALPN and
\* HTTP/2 are probed three times each, every time without success
C15_Divergence ==
    /\ ReturnedInfo
    /\ server.versions = {5, 6}
    /\ server.http = "down"
    /\ CountOf("check_alpn_support") = 3
    /\ CountOf("check_http2_support") = 3
    /\ Unwrap(Info.protocol_support)[5].http2_support = Some(FALSE)
    /\ Unwrap(Info.protocol_support)[6].http2_support = Some(FALSE)
    /\ Info.http2_support = Some(FALSE)

\* C20: in a returned record, if TLS 1.0 is in ssl_versions and a suite the record
\* lists for TLS 1.0, in cipher_suites or in the TLS 1.0 entry of protocol_support, has
\* CBC in its name, the BEAST finding (CVE-2011-3389) is affected.
C20_BeastForTls10Cbc ==
    (/\ ReturnedInfo
     /\ IsSome(Info.ssl_versions)
     /\ Has(Unwrap(Info.ssl_versions), "TLS 1.0")
     /\ \/ \E i \in DOMAIN Unwrap(Info.cipher_suites) :
               /\ Unwrap(Info.cipher_suites)[i].version = "TLS 1.0"
               /\ contains(Unwrap(Info.cipher_suites)[i].name, "CBC")
        \/ /\ IsSome(Info.protocol_support)
           /\ \E e \in DOMAIN Unwrap(Info.protocol_support) :
                  /\ Unwrap(Info.protocol_support)[e].version = "TLS 1.0"
                  /\ \E i \in DOMAIN Unwrap(Info.protocol_support)[e].cipher_suites :
                         contains(Unwrap(Info.protocol_support)[e].cipher_suites[i].name,
                                  "CBC")) =>
        Affected(Unwrap(Info.cve_vulnerabilities), "CVE-2011-3389")

\* a host that accepts TLS 1.0: its TLS 1.0 entry lists CBC suites, BEAST is not among
\* the findings and WEAK-TLS10 is
C20_Divergence ==
    /\ ReturnedInfo
    /\ IsSome(Info.ssl_versions)
    /\ IsSome(Info.protocol_support)
    /\ Unwrap(Info.ssl_versions) = <<"TLS 1.0", "TLS 1.2", "TLS 1.3">>
    /\ Unwrap(Info.protocol_support)[3].version = "TLS 1.0"
    /\ Unwrap(Info.protocol_support)[3].supported
    /\ Unwrap(Info.protocol_support)[3].cipher_suites[1].name = "TLS_RSA_WITH_AES_128_CBC_SHA"
    /\ ~Emitted(Unwrap(Info.cve_vulnerabilities), "CVE-2011-3389")
    /\ Affected(Unwrap(Info.cve_vulnerabilities), "WEAK-TLS10")

\* the leaf the server sent carries an elliptic-curve key shorter than 256 bits
EcBelow256 ==
    /\ cert_chain_ders # <<>>
    /\ cert_chain_ders[1].ok
    /\ cert_chain_ders[1].public_key.type = "EC"
    /\ cert_chain_ders[1].public_key.bits < 256

\* C21: whenever the rules have run on a leaf certificate whose elliptic-curve public
\* key is shorter than 256 bits, the findings contain WEAK-KEY-SIZE with affected = true.
C21_ShortEcKeyReported ==
    (Rated /\ EcBelow256) => Affected(cve_vulnerabilities, "WEAK-KEY-SIZE")

\* a 192-bit elliptic-curve leaf: parsing records no key size for it and the rules
\* emit no WEAK-KEY-SIZE finding at all
C21_Divergence ==
    /\ Rated
    /\ EcBelow256
    /\ cert_chain_ders[1].public_key.bits = 192
    /\ Leaf.public_key_algorithm = "EC"
    /\ Leaf.key_size = None
    /\ ~weak_key_affected(Leaf)
    /\ ~Emitted(cve_vulnerabilities, "WEAK-KEY-SIZE")

\* the fields of the record that come from the parsed leaf certificate
CertificateFields ==
    <<Info.certificate, Info.ssl_versions, Info.cipher_suites, Info.security_score,
      Info.ssl_labs_rating, Info.vulnerabilities, Info.recommendations,
      Info.cve_vulnerabilities>>

\* the fields of the record that are probed after the leaf certificate has parsed
ProbedFields ==
    <<Info.protocol_support, Info.server_cipher_order, Info.certificate_chain,
      Info.http2_support, Info.spdy_support, Info.http3_support, Info.alpn_protocols>>

\* C29: in every record check_ssl_info returns, certificate, ssl_versions,
\* cipher_suites, security_score, ssl_labs_rating, vulnerabilities, recommendations and
\* cve_vulnerabilities are all set or all unset; when they are unset, protocol_support,
\* server_cipher_order, certificate_chain and the HTTP/2, SPDY, HTTP/3 and ALPN fields
\* are unset as well.
C29_CertificateFieldsTogether ==
    ReturnedInfo =>
        /\ \/ \A i \in DOMAIN CertificateFields : IsSome(CertificateFields[i])
           \/ \A i \in DOMAIN CertificateFields : CertificateFields[i] = None
        /\ Info.certificate = None => \A i \in DOMAIN ProbedFields : ProbedFields[i] = None

\* a host whose leaf does not parse: the connection gave cipher suites, the address
\* was resolved, and every certificate field and every probed field is unset
C29_Witness ==
    /\ ReturnedInfo
    /\ server.port443 = "tls"
    /\ cert_chain_ders # <<>>
    /\ cert_chain_ders[1] = BadDer
    /\ cipher_suites # <<>>
    /\ IsSome(Info.server_ip)
    /\ \A i \in DOMAIN CertificateFields : CertificateFields[i] = None
    /\ \A i \in DOMAIN ProbedFields : ProbedFields[i] = None

-----------------------------------------------------------------------------
(* Properties of the raw-socket probe.                                     *)

\* the probe was made for TLS 1.0 or TLS 1.1 and has returned
ProbeReturned == rpc = "done" /\ probe_protocol \in {"TLS 1.0", "TLS 1.1"}

\* the byte of the reply at a 0-based index of the read buffer
ReplyByte(i) == IF i < Len(response.bytes) THEN response.bytes[i + 1] ELSE 0

\* a two-byte protocol version as one number
Version16(major, minor) == major * 256 + minor

RequestedVersion ==
    IF probe_protocol = "TLS 1.0" THEN Version16(3, 1) ELSE Version16(3, 2)

\* C22: a TLS 1.0 or TLS 1.1 probe always returns a boolean, and returns true exactly
\* when the read gave a non-empty reply whose byte 0 is 0x16, whose byte 5 is 0x02 and
\* whose version in bytes 9-10 is at least the requested one; an alert (0x15), an empty
\* read, a read error, a timeout and a failed connection or write are all unsupported,
\* and a reply shorter than 11 bytes is classified like any other.
C22_SupportedIffServerHello ==
    ProbeReturned =>
        /\ raw_result \in {Some(TRUE), Some(FALSE)}
        /\ Unwrap(raw_result) =
              (/\ response.outcome = "read"
               /\ Len(response.bytes) > 0
               /\ ReplyByte(0) = 22
               /\ ReplyByte(5) = 2
               /\ Version16(ReplyByte(9), ReplyByte(10)) >= RequestedVersion)
        /\ (Len(response.bytes) > 0 /\ ReplyByte(0) = 21) => raw_result = Some(FALSE)
        /\ response.outcome \in {"none", "error", "timeout"} => raw_result = Some(FALSE)

\* a TLS 1.1 probe answered by a ServerHello for TLS 1.2, cut after its version bytes
C22_Witness ==
    /\ ProbeReturned
    /\ probe_protocol = "TLS 1.1"
    /\ response.outcome = "read"
    /\ Len(response.bytes) = 11
    /\ ReplyByte(0) = 22
    /\ ReplyByte(5) = 2
    /\ ReplyByte(9) = 3
    /\ ReplyByte(10) = 3
    /\ raw_result = Some(TRUE)

\* the byte of the ClientHello at a 0-based index, and the big-endian numbers there
HelloByte(i) == client_hello[i + 1]

HelloU16(i) == HelloByte(i) * 256 + HelloByte(i + 1)

HelloU24(i) == HelloByte(i) * 65536 + HelloByte(i + 1) * 256 + HelloByte(i + 2)

\* where the extensions block would begin: after the record header (5), the handshake
\* header (4), the version (2), the random (32), the empty session id (1), the cipher
\* suites with their length (2 + n) and the compression methods (2)
ExtensionsPos == 46 + HelloU16(44) + 2

\* C23: in every ClientHello built for TLS 1.0 or TLS 1.1 the record length counts the
\* bytes after the 5-byte record header and the handshake length the bytes after the
\* 4-byte handshake header; for a non-empty name the extensions length, the SNI
\* extension length, the server-name-list length and the name length each count the
\* bytes that follow them, and for an empty name the message ends where the extensions
\* block would begin.
C23_LengthFieldsConsistent ==
    client_hello # <<>> =>
        LET n == Len(client_hello)
        IN  /\ probe_protocol \in {"TLS 1.0", "TLS 1.1"}
            /\ HelloU16(3) = n - 5
            /\ HelloU24(6) = n - 9
            /\ probe_domain = "" => n = ExtensionsPos
            /\ probe_domain # "" =>
                  /\ HelloU16(ExtensionsPos) = n - (ExtensionsPos + 2)
                  /\ HelloU16(ExtensionsPos + 2) = 0
                  /\ HelloU16(ExtensionsPos + 4) = n - (ExtensionsPos + 6)
                  /\ HelloU16(ExtensionsPos + 6) = n - (ExtensionsPos + 8)
                  /\ HelloByte(ExtensionsPos + 8) = 0
                  /\ HelloU16(ExtensionsPos + 9) = n - (ExtensionsPos + 11)
                  /\ HelloU16(ExtensionsPos + 9) = Len(probe_domain)

\* the ClientHello for the three-byte name "a.a": 64 bytes, record length 59
C23_Witness ==
    /\ client_hello # <<>>
    /\ probe_domain = "a.a"
    /\ probe_protocol = "TLS 1.0"
    /\ Len(client_hello) = 64
    /\ HelloU16(3) = 59
    /\ HelloU24(6) = 55
    /\ HelloU16(ExtensionsPos) = 12
    /\ SubSeq(client_hello, 62, 64) = <<97, 46, 97>>

\* the chain builder was called on its own and is over
ChainBuilt == pc = "chain_built"

\* the 1-based positions of the blobs that do not parse
Unparsable == {i \in DOMAIN cert_chain_ders : ~cert_chain_ders[i].ok}

\* C27: for every non-empty list of blobs the chain builder returns a chain; when some
\* blob does not parse, chain_errors names each such blob and the validation status is
\* "invalid".
C27_ChainBuilderNeverAborts ==
    (ChainBuilt /\ cert_chain_ders # <<>>) =>
        LET chain == Unwrap(certificate_chain)
        IN  /\ chain.outcome = "ok"
            /\ chain.chain_length = Len(cert_chain_ders)
            /\ \A i \in Unparsable :
                  Has(chain.chain_errors, "error parsing certificate " \o ToString(i))
            /\ Unparsable # {} => chain.chain_validation_status = "invalid"

\* two blobs of which none parses: the call panics
C27_Divergence ==
    /\ ChainBuilt
    /\ Len(cert_chain_ders) = 2
    /\ Unparsable = {1, 2}
    /\ Unwrap(certificate_chain).outcome = "panic"

-----------------------------------------------------------------------------
(* The certificate viewer (certificate_viewer.rs): parsing of the X.509     *)
(* certificates of a PEM or PKCS#12 file into CertificateInfo records.     *)
(* A distinguished name is the sequence of its attributes, each a pair     *)
(* <<type, value>>.  The HashMap parse_name fills is a record of the three *)
(* keys the chain code reads, "" standing for an absent key (every read is *)
(* get(key).unwrap_or(&empty_string)).                                      *)

Attr(type, value) == <<type, value>>

ExampleRootName == <<Attr("C", "US"), Attr("O", "Example Trust"), Attr("CN", "Example Root CA")>>

ExampleIssuingName ==
    <<Attr("O", "Example Issuing Org"), Attr("CN", "Example Issuing CA")>>

LegacyRootName == <<Attr("O", "Legacy Trust"), Attr("OU", "Class 3 Primary CA")>>

\* an intermediate CA that carries the organisation of the root that issued it
ExampleTrustIssuingName ==
    <<Attr("O", "Example Trust"), Attr("CN", "Example Trust Issuing CA G2")>>

\* the X.509 certificates a file may hold.  basic_constraints is None when the
\* extension is absent, else Some of its ca flag and path_len_constraint.
X509Certificates ==
    { [ serial |-> 17, subject |-> ExampleRootName, issuer |-> ExampleRootName,
        basic_constraints |-> Some([ca |-> TRUE, path_len_constraint |-> None]) ],
      [ serial |-> 34, subject |-> ExampleIssuingName, issuer |-> ExampleRootName,
        basic_constraints |-> Some([ca |-> TRUE, path_len_constraint |-> Some(0)]) ],
      [ serial |-> 51, subject |-> <<Attr("CN", "www.example.com")>>,
        issuer |-> ExampleIssuingName,
        basic_constraints |-> Some([ca |-> FALSE, path_len_constraint |-> None]) ],
      [ serial |-> 68, subject |-> <<Attr("DC", "example"), Attr("CN", "mail.example.com")>>,
        issuer |-> ExampleIssuingName,
        basic_constraints |-> None ],
      [ serial |-> 85, subject |-> LegacyRootName, issuer |-> LegacyRootName,
        basic_constraints |-> Some([ca |-> TRUE, path_len_constraint |-> None]) ],
      [ serial |-> 102, subject |-> ExampleTrustIssuingName, issuer |-> ExampleRootName,
        basic_constraints |-> Some([ca |-> TRUE, path_len_constraint |-> Some(1)]) ],
      [ serial |-> 51, subject |-> <<Attr("OU", "Devices"), Attr("CN", "device-0001")>>,
        issuer |-> <<Attr("OU", "Devices"), Attr("CN", "Factory Issuer")>>,
        basic_constraints |-> None ],
      [ serial |-> 136, subject |-> <<Attr("CN", "intranet.example.com")>>,
        issuer |-> ExampleRootName,
        basic_constraints |-> Some([ca |-> FALSE, path_len_constraint |-> None]) ],
      [ serial |-> 153, subject |-> <<Attr("CN", "shop.example.com")>>,
        issuer |-> ExampleTrustIssuingName,
        basic_constraints |-> Some([ca |-> FALSE, path_len_constraint |-> None]) ] }

RECURSIVE last_value(_, _)
\* the value parse_name leaves under a key: that of the last attribute of the type
last_value(name, type) ==
    IF Len(name) = 0 THEN ""
    ELSE IF name[Len(name)][1] = type THEN name[Len(name)][2]
    ELSE last_value(SubSeq(name, 1, Len(name) - 1), type)

parse_name(name) ==
    [ CN |-> last_value(name, "CN"), O |-> last_value(name, "O"), OU |-> last_value(name, "OU") ]

RECURSIVE first_common_name(_)
\* name.iter_common_name().next() ... unwrap_or("")
first_common_name(name) ==
    IF Len(name) = 0 THEN ""
    ELSE IF name[1][1] = "CN" THEN name[1][2]
    ELSE first_common_name(Tail(name))

is_self_signed(x509) ==
    /\ first_common_name(x509.subject) = first_common_name(x509.issuer)
    /\ first_common_name(x509.subject) # ""

fallback_determine_chain_level(x509) ==
    LET issuer_cn == first_common_name(x509.issuer)
    IN  IF is_self_signed(x509) THEN 2
        ELSE IF contains(issuer_cn, "Root") \/ contains(issuer_cn, "CA") THEN 0
        ELSE 1

determine_chain_level(x509) ==
    IF ~IsSome(x509.basic_constraints) THEN fallback_determine_chain_level(x509)
    ELSE LET bc == Unwrap(x509.basic_constraints)
         IN  IF ~bc.ca THEN 0
             ELSE IF IsSome(bc.path_len_constraint) /\ Unwrap(bc.path_len_constraint) = 0 THEN 1
             ELSE IF is_self_signed(x509) THEN 2
             ELSE 1

\* parse_certificate of the viewer: the fields of CertificateInfo the chain code reads.
\* The serial number is kept as its value (the hex text is compared as text, and the
\* serials here have equally many digits); a fingerprint is a digest of the whole
\* certificate and is kept as the certificate itself.
viewer_parse_certificate(x509) ==
    [ subject |-> parse_name(x509.subject),
      issuer |-> parse_name(x509.issuer),
      serial_number |-> x509.serial,
      chain_level |-> determine_chain_level(x509),
      sha1_fingerprint |-> Some(x509),
      sha256_fingerprint |-> Some(x509) ]

\* a comparison by fingerprint alone
is_duplicate_by_fingerprint(cert1, cert2) ==
    \/ /\ IsSome(cert1.sha256_fingerprint) /\ IsSome(cert2.sha256_fingerprint)
       /\ Unwrap(cert1.sha256_fingerprint) = Unwrap(cert2.sha256_fingerprint)
    \/ /\ IsSome(cert1.sha1_fingerprint) /\ IsSome(cert2.sha1_fingerprint)
       /\ Unwrap(cert1.sha1_fingerprint) = Unwrap(cert2.sha1_fingerprint)

is_duplicate_certificate(cert1, cert2) ==
    \/ cert1.serial_number = cert2.serial_number
    \/ /\ IsSome(cert1.sha256_fingerprint) /\ IsSome(cert2.sha256_fingerprint)
       /\ Unwrap(cert1.sha256_fingerprint) = Unwrap(cert2.sha256_fingerprint)
    \/ /\ IsSome(cert1.sha1_fingerprint) /\ IsSome(cert2.sha1_fingerprint)
       /\ Unwrap(cert1.sha1_fingerprint) = Unwrap(cert2.sha1_fingerprint)

RECURSIVE dedup_from(_, _)
dedup_from(deduped, rest) ==
    IF Len(rest) = 0 THEN deduped
    ELSE IF \E i \in DOMAIN deduped : is_duplicate_certificate(deduped[i], Head(rest))
    THEN dedup_from(deduped, Tail(rest))
    ELSE dedup_from(Append(deduped, Head(rest)), Tail(rest))

deduplicate_certificates(certificates) == dedup_from(<<>>, certificates)

-----------------------------------------------------------------------------
(* The chain reconstructor of the viewer.                                  *)

is_cert_self_signed(c) ==
    \/ (c.subject.CN # "" /\ c.subject.CN = c.issuer.CN)
    \/ (c.subject.O # "" /\ c.subject.O = c.issuer.O)

certificates_match_issuer_subject(subject, issuer) ==
    \/ (subject.CN # "" /\ issuer.CN # "" /\ subject.CN = issuer.CN)
    \/ (subject.O # "" /\ issuer.O # "" /\ subject.O = issuer.O)
    \/ (subject.OU # "" /\ issuer.OU # "" /\ subject.OU = issuer.OU)

\* Vec::remove(index), 1-based
remove(seq, index) == SubSeq(seq, 1, index - 1) \o SubSeq(seq, index + 1, Len(seq))

\* least element of a non-empty set of indices
first_of(S) == CHOOSE i \in S : \A j \in S : i <= j

\* greatest element of a non-empty set of indices
last_of(S) == CHOOSE i \in S : \A j \in S : i >= j

\* enumerate().max_by_key(chain_level): the last of the certificates of the highest level
max_by_key_chain_level(certs) ==
    last_of({i \in DOMAIN certs : \A j \in DOMAIN certs : certs[j].chain_level <= certs[i].chain_level})

\* enumerate().min_by_key(chain_level): the first of the certificates of the lowest level
min_by_key_chain_level(certs) ==
    first_of({i \in DOMAIN certs : \A j \in DOMAIN certs : certs[j].chain_level >= certs[i].chain_level})

\* a start that always takes the first certificate of the input
start_at_first(certs) == IF Len(certs) = 0 THEN 0 ELSE 1

\* the index of the certificate the ordering starts from, 0 for an empty input
start_index(certs) ==
    LET self_signed == {i \in DOMAIN certs : is_cert_self_signed(certs[i])}
    IN  IF self_signed # {} THEN first_of(self_signed)
        ELSE IF Len(certs) > 0 THEN max_by_key_chain_level(certs)
        ELSE 0

RECURSIVE drain_by_level(_, _)
\* the closing loop: the remaining certificates by ascending level
drain_by_level(ordered, remaining) ==
    IF Len(remaining) = 0 THEN ordered
    ELSE LET index == min_by_key_chain_level(remaining)
         IN  drain_by_level(Append(ordered, remaining[index]), remove(remaining, index))

\* a main loop that never follows the issuer: the remaining certificates by level
order_loop_by_level(ordered, remaining) == drain_by_level(ordered, remaining)

RECURSIVE order_loop(_, _)
\* the main loop: the next certificate is the first one issued by the current one,
\* else the first one of the lowest level
order_loop(ordered, remaining) ==
    IF Len(remaining) = 0 \/ Len(ordered) = 0 THEN drain_by_level(ordered, remaining)
    ELSE LET current_issuer == ordered[Len(ordered)].subject
             matching == {i \in DOMAIN remaining :
                            certificates_match_issuer_subject(current_issuer, remaining[i].issuer)}
             index == IF matching # {} THEN first_of(matching)
                      ELSE min_by_key_chain_level(remaining)
         IN  order_loop(Append(ordered, remaining[index]), remove(remaining, index))

\* an ordering that leaves the certificate it starts from among the remaining ones
order_without_start_removal(certificates) ==
    LET start == start_index(certificates)
    IN  IF start = 0 THEN order_loop(<<>>, certificates)
        ELSE order_loop(<<certificates[start]>>, certificates)

order_certificates_by_chain(certificates) ==
    LET start == start_index(certificates)
    IN  IF start = 0 THEN order_loop(<<>>, certificates)
        ELSE order_loop(<<certificates[start]>>, remove(certificates, start))

\* certificates.sort_by(|a, b| b.chain_level.cmp(&a.chain_level)): stable, highest first
sort_by_chain_level_desc(certificates) ==
       SelectSeq(certificates, LAMBDA c : c.chain_level >= 2)
    \o SelectSeq(certificates, LAMBDA c : c.chain_level = 1)
    \o SelectSeq(certificates, LAMBDA c : c.chain_level = 0)

viewer_build_certificate_chain(cert_infos) ==
    IF Len(cert_infos) <= 1 THEN cert_infos
    ELSE LET ordered == order_certificates_by_chain(cert_infos)
         IN  IF Len(ordered) # 0 THEN ordered ELSE sort_by_chain_level_desc(cert_infos)

\* the name inferred for a missing issuer: its CN, else its O, else the placeholder
inferred_issuer_name(issuer, placeholder) ==
    IF issuer.CN # "" THEN issuer.CN
    ELSE IF issuer.O # "" THEN issuer.O
    ELSE placeholder

MissingCertificateInfo(subject_name, issuer_name, certificate_type, chain_level, description) ==
    [ subject_name |-> subject_name, issuer_name |-> issuer_name,
      certificate_type |-> certificate_type, chain_level |-> chain_level,
      description |-> description ]

\* the entry pushed when there is an end-entity certificate and no CA certificate
missing_for_end_entity(certificates) ==
    LET has_root_ca         == \E i \in DOMAIN certificates : certificates[i].chain_level = 2
        has_intermediate_ca == \E i \in DOMAIN certificates : certificates[i].chain_level = 1
        has_end_entity      == \E i \in DOMAIN certificates : certificates[i].chain_level = 0
    IN  IF has_end_entity /\ ~has_intermediate_ca /\ ~has_root_ca
        THEN LET end_cert == certificates[first_of({i \in DOMAIN certificates :
                                                      certificates[i].chain_level = 0})]
                 issuer_name == inferred_issuer_name(end_cert.issuer, "unknown CA")
             IN  <<MissingCertificateInfo(issuer_name, "unknown", "intermediate CA or root CA", 1,
                       "missing the CA that issued the end-entity certificate: " \o issuer_name)>>
        ELSE <<>>

\* a rule that asks for a root whenever there is an intermediate CA
missing_root_for_any_intermediate(certificates) ==
    LET intermediates == {i \in DOMAIN certificates : certificates[i].chain_level = 1}
    IN  IF intermediates # {}
        THEN LET issuer_name ==
                     inferred_issuer_name(certificates[last_of(intermediates)].issuer,
                                          "unknown root CA")
             IN  <<MissingCertificateInfo(issuer_name, issuer_name, "root CA", 2,
                       "missing root CA certificate: " \o issuer_name)>>
        ELSE <<>>

\* the entry pushed when there is an intermediate CA and no root CA: named from the
\* issuer of the last level-1 certificate of greatest serial number
missing_for_intermediate(certificates) ==
    LET has_root_ca   == \E i \in DOMAIN certificates : certificates[i].chain_level = 2
        intermediates == {i \in DOMAIN certificates : certificates[i].chain_level = 1}
    IN  IF intermediates # {} /\ ~has_root_ca
        THEN LET top_intermediate ==
                     certificates[last_of({i \in intermediates : \A j \in intermediates :
                         certificates[j].serial_number <= certificates[i].serial_number})]
                 issuer_name == inferred_issuer_name(top_intermediate.issuer, "unknown root CA")
             IN  <<MissingCertificateInfo(issuer_name, issuer_name, "root CA", 2,
                       "missing root CA certificate: " \o issuer_name)>>
        ELSE <<>>

RECURSIVE missing_for_breaks(_, _, _)
\* the loop over the certificates from position index on: an entry for each level-0 or
\* level-1 certificate whose issuer is no certificate of the list, once per inferred name
missing_for_breaks(certificates, index, missing) ==
    IF index > Len(certificates) THEN missing
    ELSE LET c == certificates[index]
             has_issuer == \E j \in DOMAIN certificates :
                               certificates_match_issuer_subject(certificates[j].subject, c.issuer)
             issuer_name == inferred_issuer_name(c.issuer, "unknown CA")
         IN  IF /\ c.chain_level \in {0, 1}
                /\ ~has_issuer
                /\ ~is_cert_self_signed(c)
                /\ ~\E m \in DOMAIN missing : missing[m].subject_name = issuer_name
             THEN missing_for_breaks(certificates, index + 1,
                      Append(missing,
                          MissingCertificateInfo(issuer_name, "unknown",
                              IF c.chain_level = 0 THEN "intermediate CA"
                              ELSE "root CA or higher intermediate CA",
                              c.chain_level + 1,
                              "missing the CA that issued the certificate: " \o issuer_name)))
             ELSE missing_for_breaks(certificates, index + 1, missing)

identify_missing_certificates(certificates) ==
    IF Len(certificates) = 0 THEN <<>>
    ELSE missing_for_breaks(certificates, 1,
             missing_for_end_entity(certificates) \o missing_for_intermediate(certificates))

\* suggest_ca_download_urls: the branch of the first brand found in the issuer's
\* lower-cased CN and O; the first two brands and the general branch are kept (the
\* others have the same shape and every branch returns at least one URL)
suggest_ca_download_urls(c) ==
    LET issuer_info == to_lowercase(c.issuer.CN) \o " " \o to_lowercase(c.issuer.O)
    IN  IF contains(issuer_info, "let's encrypt") \/ contains(issuer_info, "letsencrypt")
        THEN <<"https://letsencrypt.org/certificates/",
               "https://cert.int-x3.letsencrypt.org/",
               "https://letsencrypt.org/certs/isrgrootx1.pem">>
        ELSE IF contains(issuer_info, "digicert")
        THEN <<"https://www.digicert.com/kb/digicert-root-certificates.htm",
               "https://cacerts.digicert.com/DigiCertGlobalRootCA.crt",
               "https://cacerts.digicert.com/DigiCertHighAssuranceEVRootCA.crt",
               "https://cacerts.digicert.com/DigiCertAssuredIDRootCA.crt">>
        ELSE <<"https://curl.se/docs/caextract.html",
               "https://wiki.mozilla.org/CA",
               "https://ccadb-public.secure.force.com/mozilla/IncludedCACertificateReport">>

\* the chain_status texts, rendered in English
STATUS_SELF_SIGNED_ROOT == "complete: self-signed root"

STATUS_MISSING_UPPER_CA == "incomplete: missing the upper CA certificate"

STATUS_FULL == "complete: end-entity, intermediate CA and root"

STATUS_ISSUED_BY_ROOT == "complete: end-entity issued directly by the root CA"

STATUS_MISSING_INTERMEDIATE == "incomplete: missing the intermediate CA certificate"

STATUS_MISSING_ROOT == "incomplete: missing the root CA certificate"

STATUS_MISSING_ALL_CA == "incomplete: missing all CA certificates"

STATUS_CA_CHAIN == "CA chain: intermediate CA and root"

STATUS_ROOT_ONLY == "root: self-signed root CA certificate"

STATUS_CA_CHAIN_MISSING_ROOT == "incomplete CA chain: missing the root CA certificate"

STATUS_ABNORMAL == "abnormal chain structure"

CertificateChainInfo(certificates, is_full_chain, chain_status, ca_download_urls, missing_ca_info) ==
    [ certificates |-> certificates,
      missing_certificates |-> identify_missing_certificates(certificates),
      is_full_chain |-> is_full_chain,
      chain_status |-> chain_status,
      ca_download_urls |-> ca_download_urls,
      missing_ca_info |-> missing_ca_info ]

analyze_certificate_chain(cert_infos) ==
    LET certificates == viewer_build_certificate_chain(cert_infos)
        has_root_ca         == \E i \in DOMAIN certificates : certificates[i].chain_level = 2
        has_intermediate_ca == \E i \in DOMAIN certificates : certificates[i].chain_level = 1
        has_end_entity      == \E i \in DOMAIN certificates : certificates[i].chain_level = 0
        end_cert  == certificates[first_of({i \in DOMAIN certificates :
                                              certificates[i].chain_level = 0})]
        root_cert == certificates[first_of({i \in DOMAIN certificates :
                                              certificates[i].chain_level = 2})]
        urls == suggest_ca_download_urls(certificates[1])
    IN  IF Len(certificates) = 1
        THEN IF certificates[1].chain_level = 2
             THEN CertificateChainInfo(certificates, TRUE, STATUS_SELF_SIGNED_ROOT, <<>>, None)
             ELSE CertificateChainInfo(certificates, FALSE, STATUS_MISSING_UPPER_CA, urls,
                      Some("this certificate needs its upper CA certificate"))
        ELSE IF has_end_entity
        THEN IF has_root_ca
             THEN IF has_intermediate_ca
                  THEN CertificateChainInfo(certificates, TRUE, STATUS_FULL, <<>>, None)
                  ELSE IF certificates_match_issuer_subject(root_cert.subject, end_cert.issuer)
                  THEN CertificateChainInfo(certificates, TRUE, STATUS_ISSUED_BY_ROOT, <<>>, None)
                  ELSE CertificateChainInfo(certificates, FALSE, STATUS_MISSING_INTERMEDIATE, urls,
                           Some("an intermediate CA is missing between end-entity and root"))
             ELSE IF has_intermediate_ca
             THEN CertificateChainInfo(certificates, FALSE, STATUS_MISSING_ROOT, urls,
                      Some("the chain lacks the root CA but has the intermediate CA"))
             ELSE CertificateChainInfo(certificates, FALSE, STATUS_MISSING_ALL_CA, urls,
                      Some("this certificate needs a full CA chain"))
        ELSE IF has_intermediate_ca /\ has_root_ca
        THEN CertificateChainInfo(certificates, TRUE, STATUS_CA_CHAIN, <<>>, None)
        ELSE IF has_root_ca
        THEN CertificateChainInfo(certificates, TRUE, STATUS_ROOT_ONLY, <<>>, None)
        ELSE IF has_intermediate_ca
        THEN CertificateChainInfo(certificates, FALSE, STATUS_CA_CHAIN_MISSING_ROOT, urls,
                 Some("the intermediate CA needs its root CA certificate"))
        ELSE CertificateChainInfo(certificates, FALSE, STATUS_ABNORMAL, <<>>, None)

\* the CertificateInfo list of a file's certificates, duplicates removed
parsed_certificates(x509s) ==
    deduplicate_certificates([i \in DOMAIN x509s |-> viewer_parse_certificate(x509s[i])])

\* the files a user may load: up to MaxCerts certificates in any order
CertificateFiles == SeqsUpTo(X509Certificates, MaxCerts)

\* parse_pem_certificate: a file with no certificate is an error
ParsePemCertificate ==
    /\ vpc = "start"
    /\ \E pem_contents \in CertificateFiles :
          /\ pem_certs' = pem_contents
          /\ IF Len(pem_contents) = 0
             THEN chain_info' = None /\ vpc' = "error"
             ELSE /\ chain_info' = Some(analyze_certificate_chain(parsed_certificates(pem_contents)))
                  /\ vpc' = "done"
    /\ UNCHANGED scanVars
    /\ UNCHANGED rawVars
    /\ UNCHANGED probeVars

\* parse_pfx_certificate: the main certificate, if any, then the CA certificates
ParsePfxCertificate ==
    /\ vpc = "start"
    /\ \E main \in SeqsUpTo(X509Certificates, 1), ca \in SeqsUpTo(X509Certificates, MaxCerts - 1) :
          /\ pem_certs' = main \o ca
          /\ IF Len(main \o ca) = 0
             THEN chain_info' = None /\ vpc' = "error"
             ELSE /\ chain_info' = Some(analyze_certificate_chain(parsed_certificates(main \o ca)))
                  /\ vpc' = "done"
    /\ UNCHANGED scanVars
    /\ UNCHANGED rawVars
    /\ UNCHANGED probeVars

NextChain ==
    \/ ParsePemCertificate
    \/ ParsePfxCertificate

SpecChain == Init /\ [][NextChain]_vars

-----------------------------------------------------------------------------
(* Properties of the chain reconstructor.                                  *)

\* the chain analysis of the loaded file
ChainInfo == Unwrap(chain_info)

\* the list analyze_certificate_chain was called with
AnalyzedCertificates == parsed_certificates(pem_certs)

\* the rearrangements of a list
Rearrangements(seq) ==
    {[i \in DOMAIN seq |-> seq[f[i]]] :
         f \in {g \in [DOMAIN seq -> DOMAIN seq] : \A i, j \in DOMAIN seq : g[i] = g[j] => i = j}}

\* the kinds of tie the choice of the start meets: "self-signed" when several
\* certificates are self-signed, "fallback" when none is and several share the
\* highest level
StartTies(certs) ==
    LET self_signed == {i \in DOMAIN certs : is_cert_self_signed(certs[i])}
        highest == {i \in DOMAIN certs : \A j \in DOMAIN certs :
                       certs[j].chain_level <= certs[i].chain_level}
    IN  IF self_signed # {}
        THEN (IF Cardinality(self_signed) > 1 THEN {"self-signed"} ELSE {})
        ELSE (IF Cardinality(highest) > 1 THEN {"fallback"} ELSE {})

RECURSIVE WalkTies(_, _)
\* the kinds of tie the main loop meets from (ordered, remaining) on: "match" when
\* several remaining certificates match the current subject, "fallback" when none
\* matches and several share the lowest level
WalkTies(ordered, remaining) ==
    IF Len(remaining) = 0 \/ Len(ordered) = 0 THEN {}
    ELSE LET current_issuer == ordered[Len(ordered)].subject
             matching == {i \in DOMAIN remaining :
                            certificates_match_issuer_subject(current_issuer, remaining[i].issuer)}
             lowest == {i \in DOMAIN remaining : \A j \in DOMAIN remaining :
                           remaining[j].chain_level >= remaining[i].chain_level}
             index == IF matching # {} THEN first_of(matching) ELSE first_of(lowest)
         IN  (IF Cardinality(matching) > 1 THEN {"match"} ELSE {})
             \cup (IF matching = {} /\ Cardinality(lowest) > 1 THEN {"fallback"} ELSE {})
             \cup WalkTies(Append(ordered, remaining[index]), remove(remaining, index))

\* the kinds of tie the ordering of a list meets
Ties(certs) ==
    IF Len(certs) <= 1 THEN {}
    ELSE LET start == start_index(certs)
         IN  StartTies(certs) \cup WalkTies(<<certs[start]>>, remove(certs, start))

\* two certificates of the list have the same chain level and neither is the issuer
\* of the other
EqualLevelUnmatched(certs) ==
    \E i, j \in DOMAIN certs :
        /\ i # j
        /\ certs[i].chain_level = certs[j].chain_level
        /\ ~certificates_match_issuer_subject(certs[i].subject, certs[j].issuer)
        /\ ~certificates_match_issuer_subject(certs[j].subject, certs[i].issuer)

\* C3 as stated: every rearrangement of the analysed list is ordered into the same
\* sequence, except where two certificates tie in the fallback.  The exception is read
\* widely: the ordering of the list or of the rearrangement makes a choice by chain
\* level alone among several certificates of the same level, or the list holds two
\* certificates of equal chain level without an issuer/subject match between them.
C3_AsStated ==
    vpc = "done" =>
        \A p \in Rearrangements(AnalyzedCertificates) :
            \/ analyze_certificate_chain(p).certificates = ChainInfo.certificates
            \/ "fallback" \in Ties(p) \cup Ties(AnalyzedCertificates)
            \/ EqualLevelUnmatched(AnalyzedCertificates)

\* C3: every rearrangement of the analysed list is ordered into the same sequence,
\* provided the ordering meets no tie of any kind: a single self-signed certificate
\* (or none and a single certificate of the highest level) to start from, and at each
\* step a single certificate whose issuer matches the current subject (or none and a
\* single certificate of the lowest level).
C3_OrderInvariantWithoutTies ==
    (vpc = "done" /\ Ties(AnalyzedCertificates) = {}) =>
        \A p \in Rearrangements(AnalyzedCertificates) :
            /\ analyze_certificate_chain(p).certificates = ChainInfo.certificates
            /\ viewer_build_certificate_chain(p) = ChainInfo.certificates

C3_Witness ==
    /\ vpc = "done"
    /\ Len(pem_certs) = 3
    /\ pem_certs[1].serial = 51
    /\ pem_certs[2].serial = 34
    /\ pem_certs[3].serial = 17
    /\ Ties(AnalyzedCertificates) = {}
    /\ Len(ChainInfo.certificates) = 3
    /\ ChainInfo.certificates[1].serial_number = 17
    /\ ChainInfo.certificates[2].serial_number = 34
    /\ ChainInfo.certificates[3].serial_number = 51

\* C9: a file of exactly one certificate that is self-signed (subject equals issuer),
\* has Basic Constraints CA=true and no path-length constraint is analysed as a chain of
\* length 1 of level 2, a full chain with status 'complete: self-signed root'.
C9_SingleSelfSignedRoot ==
    (/\ vpc = "done"
     /\ Len(pem_certs) = 1
     /\ pem_certs[1].subject = pem_certs[1].issuer
     /\ IsSome(pem_certs[1].basic_constraints)
     /\ Unwrap(pem_certs[1].basic_constraints).ca
     /\ ~IsSome(Unwrap(pem_certs[1].basic_constraints).path_len_constraint)) =>
        /\ Len(ChainInfo.certificates) = 1
        /\ ChainInfo.certificates[1].chain_level = 2
        /\ ChainInfo.is_full_chain
        /\ ChainInfo.chain_status = STATUS_SELF_SIGNED_ROOT

\* a self-signed CA certificate without a common name: level 1, an incomplete chain,
\* and a missing root reported under the certificate's own organisation
C9_Divergence ==
    /\ vpc = "done"
    /\ Len(pem_certs) = 1
    /\ pem_certs[1].subject = LegacyRootName
    /\ pem_certs[1].issuer = LegacyRootName
    /\ Unwrap(pem_certs[1].basic_constraints).ca
    /\ ~IsSome(Unwrap(pem_certs[1].basic_constraints).path_len_constraint)
    /\ is_cert_self_signed(ChainInfo.certificates[1])
    /\ ChainInfo.certificates[1].chain_level = 1
    /\ ~ChainInfo.is_full_chain
    /\ ChainInfo.chain_status = STATUS_MISSING_UPPER_CA
    /\ Len(ChainInfo.missing_certificates) = 1
    /\ ChainInfo.missing_certificates[1].subject_name = "Legacy Trust"

\* the file holds a single line of distinct certificates: some arrangement of it is
\* a self-signed root, then certificates each issued by the one before it, the last of
\* them an end-entity certificate (names compared whole)
FileIsSingleLine ==
    /\ Len(pem_certs) >= 2
    /\ \E q \in Rearrangements(pem_certs) :
          /\ \A i, j \in DOMAIN q : q[i] = q[j] => i = j
          /\ q[1].subject = q[1].issuer
          /\ \A i \in 2..Len(q) : q[i].issuer = q[i - 1].subject /\ q[i].subject # q[i].issuer
          /\ \A i \in 1..(Len(q) - 1) : IsSome(q[i].basic_constraints)
                                        /\ Unwrap(q[i].basic_constraints).ca
          /\ \/ ~IsSome(q[Len(q)].basic_constraints)
             \/ ~Unwrap(q[Len(q)].basic_constraints).ca

\* the sequence in reverse
Reverse(seq) == [i \in DOMAIN seq |-> seq[Len(seq) + 1 - i]]

\* the list runs from a root to a leaf by the comparisons of the code: the first
\* certificate compares as self-signed and no other does, each later certificate has
\* an issuer that matches the subject of the one before it, the last certificate is of
\* level 0 and the others are CA certificates, and no subject matches the issuer of a
\* certificate other than the next one
RootToLeaf(q) ==
    /\ Len(q) >= 2
    /\ is_cert_self_signed(q[1])
    /\ \A i \in 2..Len(q) :
          /\ ~is_cert_self_signed(q[i])
          /\ certificates_match_issuer_subject(q[i - 1].subject, q[i].issuer)
    /\ q[Len(q)].chain_level = 0
    /\ \A i \in 1..(Len(q) - 1) : q[i].chain_level >= 1
    /\ \A i, j \in DOMAIN q :
          (j > 1 /\ certificates_match_issuer_subject(q[i].subject, q[j].issuer)) => j = i + 1

\* C24 as stated: a file that is a single line, in any order, is reconstructed leaf
\* first and root last, each certificate followed by its issuer.
C24_AsStated ==
    (vpc = "done" /\ FileIsSingleLine) => RootToLeaf(Reverse(ChainInfo.certificates))

\* C24: a list that some arrangement turns into a line from a root to a leaf (by the
\* CN/O/OU comparisons of the code, with the root the only certificate that compares
\* as self-signed and every subject matching the issuer of its own child only) is
\* reconstructed as that line, root first and leaf last, each certificate followed by
\* the certificate it issued.
C24_RootToLeafOrder ==
    vpc = "done" =>
        \A q \in Rearrangements(AnalyzedCertificates) :
            RootToLeaf(q) =>
                /\ ChainInfo.certificates = q
                /\ order_certificates_by_chain(AnalyzedCertificates) = q

\* leaf, root, intermediate in the file; root, intermediate, leaf in the chain
C24_Witness ==
    /\ vpc = "done"
    /\ FileIsSingleLine
    /\ Len(pem_certs) = 3
    /\ pem_certs[1].serial = 51
    /\ pem_certs[2].serial = 17
    /\ pem_certs[3].serial = 34
    /\ RootToLeaf(ChainInfo.certificates)
    /\ ChainInfo.certificates[1].serial_number = 17
    /\ ChainInfo.certificates[1].chain_level = 2
    /\ ChainInfo.certificates[2].serial_number = 34
    /\ ChainInfo.certificates[3].serial_number = 51
    /\ ChainInfo.certificates[3].chain_level = 0

\* the CertificateInfo list of the loaded file, before duplicates are removed
ParsedFile == [i \in DOMAIN pem_certs |-> viewer_parse_certificate(pem_certs[i])]

\* two certificates share a serial number, a SHA-256 fingerprint or a SHA-1 fingerprint
Shares(a, b) ==
    \/ a.serial_number = b.serial_number
    \/ (a.sha256_fingerprint # None /\ a.sha256_fingerprint = b.sha256_fingerprint)
    \/ (a.sha1_fingerprint # None /\ a.sha1_fingerprint = b.sha1_fingerprint)

\* the strictly increasing maps from the positions of one list into those of another
Embeddings(sub, seq) ==
    {f \in [DOMAIN sub -> DOMAIN seq] : \A i, j \in DOMAIN sub : i < j => f[i] < f[j]}

\* C25: the de-duplicated list is a sub-sequence of the parsed file, in the original
\* order; no two of its certificates share a serial number or a fingerprint; every
\* certificate left out shares one with a retained certificate that came before it;
\* and removing duplicates a second time changes nothing.
C25_DedupKeepsFirstOccurrences ==
    vpc = "done" =>
        LET deduped == deduplicate_certificates(ParsedFile)
        IN  /\ Len(ChainInfo.certificates) = Len(deduped)
            /\ \E f \in Embeddings(deduped, ParsedFile) :
                  /\ \A k \in DOMAIN deduped : deduped[k] = ParsedFile[f[k]]
                  /\ \A i \in DOMAIN ParsedFile :
                        (\A k \in DOMAIN deduped : f[k] # i) =>
                            \E k \in DOMAIN deduped :
                                f[k] < i /\ Shares(deduped[k], ParsedFile[i])
            /\ \A i, j \in DOMAIN deduped : i # j => ~Shares(deduped[i], deduped[j])
            /\ deduplicate_certificates(deduped) = deduped

\* a leaf, a device certificate of another issuer with the leaf's serial number, and
\* the leaf again: only the first is kept
C25_Witness ==
    /\ vpc = "done"
    /\ Len(pem_certs) = 3
    /\ pem_certs[1].subject = <<Attr("CN", "www.example.com")>>
    /\ pem_certs[2].issuer = <<Attr("OU", "Devices"), Attr("CN", "Factory Issuer")>>
    /\ pem_certs[3] = pem_certs[1]
    /\ pem_certs[1].serial = pem_certs[2].serial
    /\ deduplicate_certificates(ParsedFile) = <<ParsedFile[1]>>
    /\ Len(ChainInfo.certificates) = 1
    /\ ChainInfo.certificates[1].subject.CN = "www.example.com"

\* the certificates of the analysed list that lack their issuer: of level 0 or 1, not
\* self-signed, and with an issuer that matches the subject of no other certificate
LacksIssuer(certs) ==
    {i \in DOMAIN certs :
        /\ certs[i].chain_level \in {0, 1}
        /\ ~is_cert_self_signed(certs[i])
        /\ \A j \in DOMAIN certs :
              j # i => ~certificates_match_issuer_subject(certs[j].subject, certs[i].issuer)}

\* the name a missing issuer is reported under: its CN, else its O, else the placeholder
InferredName(issuer) ==
    IF issuer.CN # "" THEN issuer.CN ELSE IF issuer.O # "" THEN issuer.O ELSE "unknown CA"

\* C26: for every certificate of the reconstructed chain that lacks its issuer, exactly
\* one missing-certificate entry carries the name inferred from that issuer, and no two
\* entries share a subject_name.
C26_MissingIssuerReported ==
    vpc = "done" =>
        LET certs   == ChainInfo.certificates
            missing == ChainInfo.missing_certificates
        IN  /\ missing = identify_missing_certificates(certs)
            /\ \A i \in LacksIssuer(certs) :
                  Cardinality({k \in DOMAIN missing :
                                  missing[k].subject_name = InferredName(certs[i].issuer)}) = 1
            /\ \A k, l \in DOMAIN missing :
                  k # l => missing[k].subject_name # missing[l].subject_name

\* a root and a device certificate issued by "Factory Issuer": the device certificate
\* is of level 1, is not self-signed and no other certificate is its issuer, yet
\* nothing is reported missing
C26_Divergence ==
    /\ vpc = "done"
    /\ Len(ChainInfo.certificates) = 2
    /\ ChainInfo.certificates[1].serial_number = 17
    /\ ChainInfo.certificates[2].subject.CN = "device-0001"
    /\ ChainInfo.certificates[2].issuer.CN = "Factory Issuer"
    /\ ChainInfo.certificates[2].chain_level = 1
    /\ LacksIssuer(ChainInfo.certificates) = {2}
    /\ ChainInfo.missing_certificates = <<>>

\* C28 as stated: a chain reported complete has no missing certificate, no
\* missing_ca_info and no download URL.
C28_AsStated ==
    (vpc = "done" /\ ChainInfo.is_full_chain) =>
        /\ ChainInfo.missing_certificates = <<>>
        /\ ChainInfo.missing_ca_info = None
        /\ ChainInfo.ca_download_urls = <<>>

\* C28: a chain reported complete holds a level-2 certificate, has no missing_ca_info
\* and no download URL; a missing certificate may still be reported for it, and every
\* such entry comes from the break loop: it is named from the issuer of a level-0 or
\* level-1 certificate whose issuer matches the subject of no certificate of the chain.
C28_FullChainByLevelsPresent ==
    (vpc = "done" /\ ChainInfo.is_full_chain) =>
        LET certs   == ChainInfo.certificates
            missing == ChainInfo.missing_certificates
        IN  /\ \E i \in DOMAIN certs : certs[i].chain_level = 2
            /\ ChainInfo.missing_ca_info = None
            /\ ChainInfo.ca_download_urls = <<>>
            /\ \A k \in DOMAIN missing :
                  /\ missing[k].issuer_name = "unknown"
                  /\ \E i \in DOMAIN certs :
                        /\ certs[i].chain_level \in {0, 1}
                        /\ InferredName(certs[i].issuer) = missing[k].subject_name
                        /\ \A j \in DOMAIN certs :
                              ~certificates_match_issuer_subject(certs[j].subject,
                                                                 certs[i].issuer)

\* a leaf with the root and an intermediate that did not issue it: the three levels
\* are present, the chain is reported complete, and the leaf's issuer is reported missing
C28_Witness ==
    /\ vpc = "done"
    /\ Len(pem_certs) = 3
    /\ pem_certs[1].subject = <<Attr("CN", "www.example.com")>>
    /\ pem_certs[2].subject = ExampleTrustIssuingName
    /\ pem_certs[3].subject = ExampleRootName
    /\ ChainInfo.is_full_chain
    /\ ChainInfo.chain_status = STATUS_FULL
    /\ ChainInfo.missing_ca_info = None
    /\ ChainInfo.ca_download_urls = <<>>
    /\ Len(ChainInfo.missing_certificates) = 1
    /\ ChainInfo.missing_certificates[1].subject_name = "Example Issuing CA"

\* how often a value occurs in a list
Occurrences(seq, v) == Cardinality({i \in DOMAIN seq : seq[i] = v})

\* one list is a permutation of the other
IsPermutation(a, b) ==
    /\ Len(a) = Len(b)
    /\ \A i \in DOMAIN b : Occurrences(a, b[i]) = Occurrences(b, b[i])
    /\ \A i \in DOMAIN a : Occurrences(b, a[i]) = Occurrences(a, a[i])

\* C30: the ordering of a list of certificates, with or without duplicates, ends and
\* is a permutation of the list: every certificate appears as often as in the input and
\* nothing else appears; so the chain of an analysed file is a permutation of the
\* file's de-duplicated certificates.
C30_OrderIsPermutation ==
    /\ IsPermutation(order_certificates_by_chain(ParsedFile), ParsedFile)
    /\ IsPermutation(order_certificates_by_chain(AnalyzedCertificates), AnalyzedCertificates)
    /\ vpc = "done" => IsPermutation(ChainInfo.certificates, AnalyzedCertificates)

\* two leaves of different issuers and an intermediate CA, no root: the chain holds
\* each of them once, in another order than the file
C30_Witness ==
    /\ vpc = "done"
    /\ Len(pem_certs) = 3
    /\ pem_certs[1].serial = 68
    /\ pem_certs[2].serial = 153
    /\ pem_certs[3].serial = 34
    /\ Len(ChainInfo.certificates) = 3
    /\ ChainInfo.certificates # AnalyzedCertificates
    /\ ChainInfo.certificates = order_certificates_by_chain(ParsedFile)
    /\ IsPermutation(ChainInfo.certificates, ParsedFile)

====
